---- MODULE Spec2Model ----
(***************************************************************************)
(* Detection-to-decision pipeline of the atomic arbitrage bot:             *)
(* PriceAggregator (pair registry, pair scan, opportunity synthesis),      *)
(* OpportunityValidator (six-stage pipeline), ProfitCalculator and the     *)
(* opportunity handler of index.ts (validate, score, simulate, commit).    *)
(*                                                                         *)
(* Strings are sequences of one-character strings, so that toLowerCase,    *)
(* sort, template concatenation and split are computed, not assumed.       *)
(* Token amounts and 18-decimal fixed-point prices are counted in units of *)
(* 10^13 wei (WeiPerEther = 100000 units).                                 *)
(***************************************************************************)
EXTENDS Integers, Sequences, FiniteSets, TLC

VARIABLES
  scanners,              \* PriceAggregator.scanners: Map<string, DexScanner>, its keys in insertion order
  monitoredPairs,        \* PriceAggregator.monitoredPairs: Set<string>, in insertion order
  ready,                 \* the scanners whose isInitialized is true
  clock,                 \* Date.now(), in milliseconds
  last,                  \* the most recent API call and what it returned (history)
  isMonitoring,          \* PriceAggregator.isMonitoring
  opportunityCallbacks,  \* PriceAggregator.opportunityCallbacks
  loop,                  \* position of the monitorContinuously loop
  handlers,              \* the handleOpportunity invocations, in call order
  opportunitiesDetected, \* counters of monitorOpportunities
  opportunitiesExecuted,
  opportunitiesSkipped,
  config,                \* config.network.execution, fixed at startup
  vcfg,                  \* the validator under test: its configuration
  vopp,                  \* the opportunity under test
  verdicts,              \* the verdicts validate returned for vopp, with the clock read
  ethPriceUSD,           \* ProfitCalculator.ethPriceUSD
  analyses,              \* what calculateProfit returned for vopp, with the price it read
  listeners,             \* the price-update listeners subscribeToUpdates registered: <<tokens, scanner>>
  registeredBy,          \* the method that pushed each entry of opportunityCallbacks (history)
  loops,                 \* position of every monitorContinuously call of a client, in call order
  unsubscribed,          \* the scanners whose unsubscribe() has been called (history)
  subs,                  \* the subscribeToPriceUpdates calls on one scanner, in call order
  notifications,         \* the Sync notifications that scanner is handling
  pool,                  \* the pair contract of the scanner: reserves and token decimals
  tokenDecimals,         \* UniswapV2Scanner.tokenDecimals: Map<string, number>
  priceCalls             \* the getPrice calls of that scanner in flight, in call order

vars == <<scanners, monitoredPairs, ready, clock, last, isMonitoring, opportunityCallbacks,
          loop, handlers, opportunitiesDetected, opportunitiesExecuted,
          opportunitiesSkipped, config, vcfg, vopp, verdicts, ethPriceUSD, analyses, listeners,
          registeredBy, loops, unsubscribed, subs, notifications, pool,
          tokenDecimals, priceCalls>>

aggVars == <<scanners, monitoredPairs, ready, last>>
pipeVars == <<isMonitoring, opportunityCallbacks, loop, handlers,
              opportunitiesDetected, opportunitiesExecuted, opportunitiesSkipped, config>>
valVars == <<vcfg, vopp, verdicts>>
calcVars == <<ethPriceUSD, analyses>>
cacheVars == <<tokenDecimals, priceCalls>>
scanVars == <<subs, notifications, pool, cacheVars>>
subVars == <<listeners, registeredBy, loops, unsubscribed, scanVars>>

(***************************************************************************)
(* Bounds of the model.                                                    *)
(***************************************************************************)
MaxPairs == 3       \* entries the monitored-pair set may hold
MaxTicks == 2       \* clock advances
MaxHandlers == 2    \* handleOpportunity invocations
MaxVerdicts == 2    \* validate calls recorded for one opportunity
MaxAnalyses == 2    \* calculateProfit calls recorded for one opportunity
MaxCallbacks == 2   \* opportunity callbacks registered
MaxLoops == 2       \* monitorContinuously calls that start a loop
MaxSubscriptions == 2   \* subscribeToPriceUpdates calls on the scanner
MaxNotifications == 2   \* Sync notifications being handled

(***************************************************************************)
(* Strings.                                                                *)
(***************************************************************************)
CharCode(c) ==
  CASE c = "-" -> 45
    [] c = "0" -> 48
    [] c = "1" -> 49
    [] c = "A" -> 65
    [] c = "B" -> 66
    [] c = "E" -> 69
    [] c = "Z" -> 90
    [] c = "a" -> 97
    [] c = "b" -> 98
    [] c = "e" -> 101
    [] c = "z" -> 122

ToLowerChar(c) ==
  CASE c = "A" -> "a"
    [] c = "B" -> "b"
    [] c = "E" -> "e"
    [] c = "Z" -> "z"
    [] OTHER -> c

ToLowerCase(s) == [i \in 1..Len(s) |-> ToLowerChar(s[i])]

\* s < t in the order of Array.prototype.sort's default comparison (code units).
RECURSIVE StrLess(_, _)
StrLess(s, t) ==
  IF Len(t) = 0 THEN FALSE
  ELSE IF Len(s) = 0 THEN TRUE
  ELSE IF CharCode(Head(s)) # CharCode(Head(t))
       THEN CharCode(Head(s)) < CharCode(Head(t))
       ELSE StrLess(Tail(s), Tail(t))

\* [x, y].sort()
SortTwo(x, y) == IF StrLess(y, x) THEN <<y, x>> ELSE <<x, y>>

\* s.split('-')
RECURSIVE SplitDash(_, _, _)
SplitDash(s, cur, acc) ==
  IF Len(s) = 0 THEN Append(acc, cur)
  ELSE IF Head(s) = "-" THEN SplitDash(Tail(s), <<>>, Append(acc, cur))
  ELSE SplitDash(Tail(s), Append(cur, Head(s)), acc)

Split(s) == SplitDash(s, <<>>, <<>>)

(***************************************************************************)
(* PriceAggregator: pair keys.                                             *)
(***************************************************************************)
getPairKeyUnsorted(tokenA, tokenB) ==
  ToLowerCase(tokenA) \o <<"-">> \o ToLowerCase(tokenB)

getPairKey(tokenA, tokenB) ==
  LET sorted == SortTwo(ToLowerCase(tokenA), ToLowerCase(tokenB))
  IN  sorted[1] \o <<"-">> \o sorted[2]

parsePairKey(pairKey) ==
  LET parts == Split(pairKey)
  IN  <<parts[1], parts[2]>>

SeqToSet(q) == {q[i] : i \in 1..Len(q)}

\* Set.prototype.add: appends unless present (insertion order is kept).
SetAdd(q, x) == IF x \in SeqToSet(q) THEN q ELSE Append(q, x)

\* Set.prototype.delete
SetDelete(q, x) == SelectSeq(q, LAMBDA y : y # x)

getMonitoredPairs ==
  [i \in 1..Len(monitoredPairs) |->
     LET p == parsePairKey(monitoredPairs[i])
     IN  [tokenA |-> p[1], tokenB |-> p[2]]]

(***************************************************************************)
(* BigNumber arithmetic.  a.mul(b).div(c) is computed without forming the  *)
(* product, so that the model checker's 32-bit integers do not overflow.   *)
(***************************************************************************)
\* <<q, r>> with a * b = q * c + r and 0 <= r < c, for a, b >= 0 and c > 0.
RECURSIVE MulDivQR(_, _, _)
MulDivQR(a, b, c) ==
  IF b = 0 THEN <<0, 0>>
  ELSE LET h == MulDivQR(a, b \div 2, c)
           t == 2 * h[2] + (b % 2) * (a % c)
       IN  <<2 * h[1] + (b % 2) * (a \div c) + t \div c, t % c>>

\* a.mul(b).div(c) for b >= 0, c > 0: BigNumber division truncates toward zero.
MulDiv(a, b, c) ==
  IF a >= 0 THEN MulDivQR(a, b, c)[1] ELSE -(MulDivQR(-a, b, c)[1])

WeiPerEther == 100000          \* ethers.constants.WeiPerEther, in units of 10^13 wei
parseEther(tenths) == (tenths * WeiPerEther) \div 10   \* parseEther of a decimal given in tenths

(***************************************************************************)
(* PriceAggregator: opportunity synthesis.                                 *)
(***************************************************************************)
AddressZero == <<"0", "0">>    \* ethers.constants.AddressZero

\* An ArbitrageOpportunity; estimatedProfit is optional.
OpportunityRecord(id, tokenIn, tokenOut, buyDex, sellDex, buyPrice, sellPrice, buyPool, sellPool, liquidity, timestamp, profit) ==
  [id |-> id, tokenIn |-> tokenIn, tokenOut |-> tokenOut,
   buyDex |-> buyDex, sellDex |-> sellDex,
   buyPrice |-> buyPrice, sellPrice |-> sellPrice,
   buyPoolAddress |-> buyPool, sellPoolAddress |-> sellPool,
   availableLiquidity |-> liquidity, timestamp |-> timestamp,
   estimatedProfit |-> profit]

NoProfit == [present |-> FALSE, value |-> 0]
SomeProfit(v) == [present |-> TRUE, value |-> v]

NoOpportunity == OpportunityRecord(<<>>, <<>>, <<>>, "", "", 0, 0, <<>>, <<>>, 0, 0, NoProfit)

\* `${tokenA}-${tokenB}-${buyDex}-${sellDex}-${timestamp}`: a string, the
\* venue names (which hold no "-" in the configuration) and the decimal
\* digits of the timestamp each taken as one symbol.
generateOpportunityId(tokenA, tokenB, buyDex, sellDex, now) ==
  tokenA \o <<"-">> \o tokenB \o <<"-", buyDex, "-", sellDex, "-", ToString(now)>>

\* price.poolAddress || ethers.constants.AddressZero
PoolOrZero(quote) == IF quote.hasPool THEN quote.poolAddress ELSE AddressZero

makeOpportunityPricesSwapped(tokenA, tokenB, buyDex, sellDex, buyPrice, sellPrice, now) ==
  OpportunityRecord(generateOpportunityId(tokenA, tokenB, buyDex, sellDex, now),
                    tokenA, tokenB, buyDex, sellDex,
                    sellPrice.price, buyPrice.price,
                    PoolOrZero(buyPrice), PoolOrZero(sellPrice),
                    parseEther(100), now,
                    SomeProfit(sellPrice.price - buyPrice.price))

\* The opportunity object of createOpportunityIfProfitable; the quotes are
\* [price, poolAddress, hasPool].
makeOpportunity(tokenA, tokenB, buyDex, sellDex, buyPrice, sellPrice, now) ==
  OpportunityRecord(generateOpportunityId(tokenA, tokenB, buyDex, sellDex, now),
                    tokenA, tokenB, buyDex, sellDex,
                    buyPrice.price, sellPrice.price,
                    PoolOrZero(buyPrice), PoolOrZero(sellPrice),
                    parseEther(100), now,
                    SomeProfit(sellPrice.price - buyPrice.price))

\* priceDiff.mul(10000).div(buyPrice.price).toNumber() / 100, in hundredths of a percent
DiffPercentageX100(buyPrice, sellPrice) == MulDiv(sellPrice - buyPrice, 10000, buyPrice)

BelowMinDiffStrict(buyPrice, sellPrice) == DiffPercentageX100(buyPrice, sellPrice) <= 50

\* diffPercentage < minDiffPercentage, with minDiffPercentage = 0.5
BelowMinDiff(buyPrice, sellPrice) == DiffPercentageX100(buyPrice, sellPrice) < 50

\* The result is null, an opportunity, or the error BigNumber.div throws on a
\* zero buy price.
createOpportunityIfProfitable(tokenA, tokenB, buyDex, sellDex, buyPrice, sellPrice, now) ==
  IF sellPrice.price <= buyPrice.price THEN [kind |-> "null", opp |-> NoOpportunity]
  ELSE IF buyPrice.price = 0 THEN [kind |-> "throw", opp |-> NoOpportunity]
  ELSE IF BelowMinDiff(buyPrice.price, sellPrice.price)
       THEN [kind |-> "null", opp |-> NoOpportunity]
  ELSE [kind |-> "opp",
        opp |-> makeOpportunity(tokenA, tokenB, buyDex, sellDex, buyPrice, sellPrice, now)]

DexNames == <<"Uniswap V2", "SushiSwap", "Uniswap V3">>

PoolOf(d) ==
  CASE d = "Uniswap V2" -> <<"e", "0">>
    [] d = "SushiSwap" -> <<"e", "1">>
    [] OTHER -> <<"e", "a">>

GetPriceFails == -1    \* getPrice throws: no pair, or the transport fails

\* The Price a scanner returns; UniswapV2Scanner always names the pool.
Quote(d, p) == [price |-> p, poolAddress |-> PoolOf(d), hasPool |-> TRUE]

\* The comparison loop of detectOpportunitiesForPair over dexNames (the keys
\* of the prices map): the calls made, in order, up to the first that throws.
DirectionCalls(n) ==
  LET Pairs == {ij \in (1..n) \X (1..n) : ij[1] < ij[2]}
      Rank(ij) == Cardinality({p \in Pairs : p[1] < ij[1] \/ (p[1] = ij[1] /\ p[2] < ij[2])})
      At(k) == CHOOSE ij \in Pairs : Rank(ij) = k
  IN  [m \in 1..(2 * Cardinality(Pairs)) |->
         LET ij == At((m - 1) \div 2)
         IN  IF m % 2 = 1 THEN <<ij[1], ij[2]>> ELSE <<ij[2], ij[1]>>]

RECURSIVE RunCalls(_, _, _, _, _, _, _)
RunCalls(tokenA, tokenB, dexNames, prices, now, todo, acc) ==
  IF Len(todo) = 0 THEN acc
  ELSE LET buyDex == dexNames[Head(todo)[1]]
           sellDex == dexNames[Head(todo)[2]]
           r == createOpportunityIfProfitable(tokenA, tokenB, buyDex, sellDex,
                                              prices[buyDex], prices[sellDex], now)
           call == [buyDex |-> buyDex, sellDex |-> sellDex,
                    buyPrice |-> prices[buyDex].price, sellPrice |-> prices[sellDex].price,
                    kind |-> r.kind]
       IN  IF r.kind = "throw"
           THEN [threw |-> TRUE, opps |-> <<>>, calls |-> Append(acc.calls, call)]
           ELSE RunCalls(tokenA, tokenB, dexNames, prices, now, Tail(todo),
                         [threw |-> FALSE,
                          opps |-> IF r.kind = "opp" THEN Append(acc.opps, r.opp) ELSE acc.opps,
                          calls |-> Append(acc.calls, call)])

\* The scan without the try around getPrice: the first failing query
\* fails the scan.
detectOpportunitiesForPairUncaught(tokenA, tokenB, resp, now) ==
  LET asked == SelectSeq(scanners, LAMBDA d : d \in ready)
      dexNames == SelectSeq(asked, LAMBDA d : resp[d] # GetPriceFails)
      prices == [d \in SeqToSet(dexNames) |-> Quote(d, resp[d])]
      none == [threw |-> FALSE, opps |-> <<>>, calls |-> <<>>]
      scan == IF Len(dexNames) < 2 THEN none
              ELSE RunCalls(tokenA, tokenB, dexNames, prices, now,
                            DirectionCalls(Len(dexNames)), none)
      failed == Len(dexNames) < Len(asked)
  IN  [threw |-> failed \/ scan.threw, opps |-> IF failed THEN <<>> ELSE scan.opps,
       calls |-> IF failed THEN <<>> ELSE scan.calls, queried |-> asked]

\* resp[d] is what getPrice of the ready scanner d answers; a scanner that is
\* not ready is not asked.  prices is the map of the quotes obtained, and
\* queried lists the scanners that were asked.
detectOpportunitiesForPair(tokenA, tokenB, resp, now) ==
  LET asked == SelectSeq(scanners, LAMBDA d : d \in ready)
      dexNames == SelectSeq(asked, LAMBDA d : resp[d] # GetPriceFails)
      prices == [d \in SeqToSet(dexNames) |-> Quote(d, resp[d])]
      none == [threw |-> FALSE, opps |-> <<>>, calls |-> <<>>]
      scan == IF Len(dexNames) < 2 THEN none
              ELSE RunCalls(tokenA, tokenB, dexNames, prices, now,
                            DirectionCalls(Len(dexNames)), none)
  IN  [threw |-> scan.threw, opps |-> scan.opps, calls |-> scan.calls, queried |-> asked]

(***************************************************************************)
(* OpportunityValidator.  A reason or a warning is its message with the    *)
(* numbers the message embeds; JavaScript numbers are exact rationals here. *)
(***************************************************************************)
HexChars == {"0", "1", "a", "b", "e", "A", "B", "E"}
LowerHex == {"a", "b", "e"}
UpperHex == {"A", "B", "E"}

\* ethers.utils.isAddress: hexadecimal digits of the length of an address; a
\* mixed-case address must carry a valid checksum, which none here does.
isAddress(s) ==
  /\ Len(s) = Len(AddressZero)
  /\ \A i \in 1..Len(s) : s[i] \in HexChars
  /\ ~(\E i \in 1..Len(s), j \in 1..Len(s) : s[i] \in LowerHex /\ s[j] \in UpperHex)

Msg(text, n) == [text |-> text, n |-> n]
NoReason == Msg("", <<>>)
Reject(reason) == [isValid |-> FALSE, reason |-> reason, warnings |-> <<>>]
Accept(warnings) == [isValid |-> TRUE, reason |-> NoReason, warnings |-> warnings]

\* Number.prototype.toFixed(0) of n / d, for n >= 0 and d > 0.
Round(n, d) == (2 * n + d) \div (2 * d)

EthPriceUSD == 2000            \* the rough ETH price of the USD estimates
\* parseFloat(formatEther(x)) * ethPriceUSD is x / UnitsPerUSD dollars
UnitsPerUSD == WeiPerEther \div EthPriceUSD
\* a value (in units), converted to dollars, is less than num / den dollars
BelowUSD(value, num, den) == value * den < num * UnitsPerUSD
\* toFixed(0) of the value in dollars
ToUSD(value) == Round(value, UnitsPerUSD)
\* toFixed(2) of the value in dollars, in cents
ToCents(value) == Round(value * 100, UnitsPerUSD)

\* new OpportunityValidator(config, options): an option that is absent or
\* falsy takes its default.
DefaultMinLiquidityUSD == 10000
OptionOr(option, default) == IF option.present /\ option.value # 0 THEN option.value ELSE default

NewValidator(minProfitUSD, options) ==
  [minProfitUSD |-> minProfitUSD,
   blacklistedTokens |-> {ToLowerCase(t) : t \in options.blacklistedTokens},
   whitelistedTokens |-> {ToLowerCase(t) : t \in options.whitelistedTokens},
   blacklistedDexes |-> options.blacklistedDexes,
   minLiquidityUSD |-> OptionOr(options.minLiquidityUSD, DefaultMinLiquidityUSD),
   useWhitelist |-> options.useWhitelist]

validateTokens(v, o) ==
  IF ~isAddress(o.tokenIn) THEN Reject(Msg("Invalid tokenIn address", <<>>))
  ELSE IF ~isAddress(o.tokenOut) THEN Reject(Msg("Invalid tokenOut address", <<>>))
  ELSE IF ToLowerCase(o.tokenIn) = ToLowerCase(o.tokenOut)
       THEN Reject(Msg("TokenIn and tokenOut cannot be the same", <<>>))
  ELSE IF ToLowerCase(o.tokenIn) \in v.blacklistedTokens
       THEN Reject(Msg("TokenIn is blacklisted", <<>>))
  ELSE IF ToLowerCase(o.tokenOut) \in v.blacklistedTokens
       THEN Reject(Msg("TokenOut is blacklisted", <<>>))
  ELSE IF v.useWhitelist /\ ToLowerCase(o.tokenIn) \notin v.whitelistedTokens
       THEN Reject(Msg("TokenIn not in whitelist", <<>>))
  ELSE IF v.useWhitelist /\ ToLowerCase(o.tokenOut) \notin v.whitelistedTokens
       THEN Reject(Msg("TokenOut not in whitelist", <<>>))
  ELSE Accept(<<>>)

validateDexes(v, o) ==
  IF o.buyDex = o.sellDex THEN Reject(Msg("Buy and sell DEX cannot be the same", <<>>))
  ELSE IF o.buyDex \in v.blacklistedDexes THEN Reject(Msg("Buy DEX is blacklisted", <<>>))
  ELSE IF o.sellDex \in v.blacklistedDexes THEN Reject(Msg("Sell DEX is blacklisted", <<>>))
  ELSE IF ~isAddress(o.buyPoolAddress) THEN Reject(Msg("Invalid buy pool address", <<>>))
  ELSE IF ~isAddress(o.sellPoolAddress) THEN Reject(Msg("Invalid sell pool address", <<>>))
  ELSE Accept(<<>>)

validatePrices(v, o) ==
  IF o.buyPrice <= 0 THEN Reject(Msg("Buy price must be positive", <<>>))
  ELSE IF o.sellPrice <= 0 THEN Reject(Msg("Sell price must be positive", <<>>))
  ELSE IF o.sellPrice <= o.buyPrice
       THEN Reject(Msg("Sell price must be higher than buy price for profitable arbitrage", <<>>))
  ELSE LET diff == DiffPercentageX100(o.buyPrice, o.sellPrice)
       IN  Accept((IF diff > 1000 THEN <<Msg("Very high price difference", <<diff>>)>> ELSE <<>>)
                  \o (IF diff < 30 THEN <<Msg("Low price difference", <<diff>>)>> ELSE <<>>))

validateLiquidity(v, o) ==
  IF o.availableLiquidity <= 0 THEN Reject(Msg("Available liquidity must be positive", <<>>))
  ELSE IF BelowUSD(o.availableLiquidity, v.minLiquidityUSD, 1)
       THEN Reject(Msg("Insufficient liquidity", <<ToUSD(o.availableLiquidity), v.minLiquidityUSD>>))
  ELSE IF BelowUSD(o.availableLiquidity, 3 * v.minLiquidityUSD, 2)
       THEN Accept(<<Msg("Low liquidity", <<ToUSD(o.availableLiquidity)>>)>>)
  ELSE Accept(<<>>)

validateProfitPotentialNoMinimum(v, o) ==
  IF ~o.estimatedProfit.present
  THEN Accept(<<Msg("No estimated profit provided - validation limited", <<>>)>>)
  ELSE IF o.estimatedProfit.value <= 0 THEN Reject(Msg("Estimated profit must be positive", <<>>))
  ELSE IF BelowUSD(o.estimatedProfit.value, 6 * v.minProfitUSD, 5)
       THEN Accept(<<Msg("Marginal profit", <<ToCents(o.estimatedProfit.value)>>)>>)
  ELSE Accept(<<>>)

validateProfitPotential(v, o) ==
  IF ~o.estimatedProfit.present
  THEN Accept(<<Msg("No estimated profit provided - validation limited", <<>>)>>)
  ELSE IF o.estimatedProfit.value <= 0 THEN Reject(Msg("Estimated profit must be positive", <<>>))
  ELSE IF BelowUSD(o.estimatedProfit.value, v.minProfitUSD, 1)
       THEN Reject(Msg("Estimated profit below minimum", <<ToCents(o.estimatedProfit.value), v.minProfitUSD>>))
  ELSE IF BelowUSD(o.estimatedProfit.value, 6 * v.minProfitUSD, 5)
       THEN Accept(<<Msg("Marginal profit", <<ToCents(o.estimatedProfit.value)>>)>>)
  ELSE Accept(<<>>)

MaxAgeSeconds == 60

StaleLoose(ageMs) == ageMs >= MaxAgeSeconds * 1000

\* ageSeconds > maxAgeSeconds, with ageSeconds = ageMs / 1000
Stale(ageMs) == ageMs > MaxAgeSeconds * 1000

validateFreshness(v, o, now) ==
  LET ageMs == now - o.timestamp
  IN  IF Stale(ageMs) THEN Reject(Msg("Opportunity is stale", <<Round(ageMs, 1000), MaxAgeSeconds>>))
      ELSE IF 2 * ageMs > MaxAgeSeconds * 1000
           THEN Accept(<<Msg("Opportunity aging", <<Round(ageMs, 1000)>>)>>)
      ELSE Accept(<<>>)

StagesFreshnessFirst(v, o, now) ==
  <<validateFreshness(v, o, now), validateTokens(v, o), validateDexes(v, o),
    validatePrices(v, o), validateLiquidity(v, o), validateProfitPotential(v, o)>>

\* The six stage results, in the order validate consults them.
Stages(v, o, now) ==
  <<validateTokens(v, o), validateDexes(v, o), validatePrices(v, o),
    validateLiquidity(v, o), validateProfitPotential(v, o), validateFreshness(v, o, now)>>

RECURSIVE RunStagesLastFailure(_, _)
RunStagesLastFailure(stages, warnings) ==
  IF Len(stages) = 0 THEN Accept(warnings)
  ELSE LET rest == RunStagesLastFailure(Tail(stages), warnings \o Head(stages).warnings)
       IN  IF ~Head(stages).isValid /\ rest.isValid THEN Head(stages) ELSE rest

\* validate: the first rejecting stage's result as it is, else the warnings
\* of all stages.
RECURSIVE RunStages(_, _)
RunStages(stages, warnings) ==
  IF Len(stages) = 0 THEN Accept(warnings)
  ELSE IF ~Head(stages).isValid THEN Head(stages)
  ELSE RunStages(Tail(stages), warnings \o Head(stages).warnings)

validate(v, o, now) == RunStages(Stages(v, o, now), <<>>)

(***************************************************************************)
(* ProfitCalculator.  Percentages are counted in hundredths of a percent.  *)
(***************************************************************************)
Min(a, b) == IF a < b THEN a ELSE b

calculateOptimalAmountNoMinimum(c, o) ==
  LET tenPercentLiquidity == o.availableLiquidity \div 10
  IN  IF tenPercentLiquidity < c.maxTradeSize THEN tenPercentLiquidity ELSE c.maxTradeSize

\* Mutant of calculateOptimalAmount: a minimum of one ether.
calculateOptimalAmountWholeEther(c, o) ==
  LET tenPercentLiquidity == o.availableLiquidity \div 10
      recommendedAmount == IF tenPercentLiquidity < c.maxTradeSize
                           THEN tenPercentLiquidity ELSE c.maxTradeSize
      minAmount == parseEther(10)
  IN  IF recommendedAmount < minAmount THEN minAmount ELSE recommendedAmount

\* Mutant of calculateOptimalAmount: the whole liquidity, without the
\* division by ten.
calculateOptimalAmountAllLiquidity(c, o) ==
  LET recommendedAmount == IF o.availableLiquidity < c.maxTradeSize
                           THEN o.availableLiquidity ELSE c.maxTradeSize
      minAmount == parseEther(1)
  IN  IF recommendedAmount < minAmount THEN minAmount ELSE recommendedAmount

calculateOptimalAmount(c, o) ==
  LET tenPercentLiquidity == o.availableLiquidity \div 10
      recommendedAmount == IF tenPercentLiquidity < c.maxTradeSize
                           THEN tenPercentLiquidity ELSE c.maxTradeSize
      minAmount == parseEther(1)
  IN  IF recommendedAmount < minAmount THEN minAmount ELSE recommendedAmount

calculateGrossProfit(amount, buyPrice, sellPrice) ==
  MulDiv(sellPrice - buyPrice, amount, WeiPerEther)

DefaultAaveFee == 9            \* 0.09 percent
calculateFlashLoanFee(c, amount) ==
  MulDiv(amount, OptionOr(c.aaveFee, DefaultAaveFee), 10000)

DefaultDexFee == 30            \* basis points
getDexFee(c, dexName) ==
  IF dexName \in DOMAIN c.dexFee THEN OptionOr(c.dexFee[dexName], DefaultDexFee)
  ELSE DefaultDexFee

calculateDexFees(c, amount, buyDex, sellDex) ==
  MulDiv(amount, getDexFee(c, buyDex) + getDexFee(c, sellDex), 10000)

EstimatedGas == 400000
GweiPerUnit == 10000           \* 10^13 wei in gwei
estimateGasCostLive(c) == (EstimatedGas * (c.maxGasPrice + Len(analyses))) \div GweiPerUnit
estimateGasCost(c) == (EstimatedGas * c.maxGasPrice) \div GweiPerUnit

calculateProfitPercentage(netProfit, amount) ==
  IF amount = 0 THEN 0 ELSE MulDiv(netProfit, 10000, amount)

\* The impact against an assumed liquidity of 200 times the amount.
calculatePriceImpactPercentDeeper(amount, price) ==
  Min(MulDiv(amount, 10000, amount * 200), 10000)

calculatePriceImpactPercent(amount, price) ==
  Min(MulDiv(amount, 10000, amount * 100), 10000)

\* convertToUSD(ethAmount) < usd, for a positive this.ethPriceUSD:
\* ethAmount * ethPriceUSD < usd * WeiPerEther
convertToUSDBelow(ethAmount, usd) == ethAmount <= (usd * WeiPerEther - 1) \div ethPriceUSD

isOpportunityExecutableAnyPercentage(c, netProfit, profitPercentage, buyPriceImpact, sellPriceImpact) ==
  IF netProfit <= 0 THEN FALSE
  ELSE IF convertToUSDBelow(netProfit, c.minProfitUSD) THEN FALSE
  ELSE IF buyPriceImpact > c.maxSlippage \/ sellPriceImpact > c.maxSlippage THEN FALSE
  ELSE TRUE

isOpportunityExecutable(c, netProfit, profitPercentage, buyPriceImpact, sellPriceImpact) ==
  IF netProfit <= 0 THEN FALSE
  ELSE IF convertToUSDBelow(netProfit, c.minProfitUSD) THEN FALSE
  ELSE IF profitPercentage < c.minProfitPercentage THEN FALSE
  ELSE IF buyPriceImpact > c.maxSlippage \/ sellPriceImpact > c.maxSlippage THEN FALSE
  ELSE TRUE

\* calculateProfit rethrows what a step throws: BigNumber.div by an
\* assumedLiquidity of zero in calculatePriceImpactPercent.
calculateProfitThrows(c, o) == calculateOptimalAmount(c, o) * 100 = 0

calculateProfit(c, o) ==
  LET recommendedAmount == calculateOptimalAmount(c, o)
      grossProfit == calculateGrossProfit(recommendedAmount, o.buyPrice, o.sellPrice)
      flashLoanFee == calculateFlashLoanFee(c, recommendedAmount)
      dexFees == calculateDexFees(c, recommendedAmount, o.buyDex, o.sellDex)
      gasCost == estimateGasCost(c)
      netProfit == grossProfit - flashLoanFee - dexFees - gasCost
      profitPercentage == calculateProfitPercentage(netProfit, recommendedAmount)
      buyPriceImpact == calculatePriceImpactPercent(recommendedAmount, o.buyPrice)
      sellPriceImpact == calculatePriceImpactPercent(recommendedAmount, o.sellPrice)
  IN  [opportunity |-> o, grossProfit |-> grossProfit, flashLoanFee |-> flashLoanFee,
       gasCost |-> gasCost, dexFees |-> dexFees, netProfit |-> netProfit,
       profitPercentage |-> profitPercentage, recommendedAmount |-> recommendedAmount,
       isExecutable |-> isOpportunityExecutable(c, netProfit, profitPercentage,
                                                buyPriceImpact, sellPriceImpact),
       priceImpact |-> [buy |-> buyPriceImpact, sell |-> sellPriceImpact]]

(***************************************************************************)
(* The aggregator's API driven with arbitrary arguments (SpecAgg).         *)
(***************************************************************************)
\* Two addresses, each written in lower and in upper case.
TokenArgs == {<<"a", "b">>, <<"A", "B">>, <<"a", "1">>, <<"A", "1">>}

\* The quotes tried in a scan: 0, 1000, 1002, 1005 and 1010 tokens on the two
\* constant-product venues, 1005 tokens on the third.
AggPrices ==
  [d \in SeqToSet(DexNames) |->
     IF d = "Uniswap V3" THEN {1005 * WeiPerEther}
     ELSE {0, 1000 * WeiPerEther, 1002 * WeiPerEther, 1005 * WeiPerEther, 1010 * WeiPerEther}]

\* The answers of one scan: each ready scanner fails or quotes a price;
\* scanners that are not ready are never asked.
ScanAnswers(pricesOf) ==
  {resp \in [ready -> UNION {pricesOf[d] : d \in ready} \cup {GetPriceFails}] :
     \A d \in ready : resp[d] \in pricesOf[d] \cup {GetPriceFails}}

TickMs == 31000     \* one clock advance

Tick ==
  /\ clock < MaxTicks * TickMs
  /\ clock' = clock + TickMs
  /\ UNCHANGED <<aggVars, pipeVars, valVars, calcVars, subVars>>

\* Whether the monitored set holds an entry for the two addresses, in either
\* order and any letter case.
EntryMatches(e, a, b) ==
  \/ ToLowerCase(e.tokenA) = ToLowerCase(a) /\ ToLowerCase(e.tokenB) = ToLowerCase(b)
  \/ ToLowerCase(e.tokenA) = ToLowerCase(b) /\ ToLowerCase(e.tokenB) = ToLowerCase(a)

MatchingEntries(a, b) ==
  {i \in 1..Len(getMonitoredPairs) : EntryMatches(getMonitoredPairs[i], a, b)}

AddPair(tokenA, tokenB) ==
  /\ Len(SetAdd(monitoredPairs, getPairKey(tokenA, tokenB))) <= MaxPairs
  /\ monitoredPairs' = SetAdd(monitoredPairs, getPairKey(tokenA, tokenB))
  /\ last' = [op |-> "addPair", a |-> tokenA, b |-> tokenB,
              had |-> MatchingEntries(tokenA, tokenB) # {}]
  /\ UNCHANGED <<scanners, ready, clock, pipeVars, valVars, calcVars, subVars>>

\* addPairs: addPair for each element, in order.
AddPairs(pairs) ==
  LET one == SetAdd(monitoredPairs, getPairKey(pairs[1].tokenA, pairs[1].tokenB))
      two == SetAdd(one, getPairKey(pairs[2].tokenA, pairs[2].tokenB))
  IN  /\ Len(two) <= MaxPairs
      /\ monitoredPairs' = two
      /\ last' = [op |-> "addPairs", pairs |-> pairs]
      /\ UNCHANGED <<scanners, ready, clock, pipeVars, valVars, calcVars, subVars>>

PairLists ==
  {<<[tokenA |-> <<"a", "b">>, tokenB |-> <<"A", "1">>], [tokenA |-> <<"a", "1">>, tokenB |-> <<"A", "B">>]>>,
   <<[tokenA |-> <<"A", "1">>, tokenB |-> <<"a", "1">>], [tokenA |-> <<"a", "b">>, tokenB |-> <<"a", "b">>]>>}

RemovePair(tokenA, tokenB) ==
  /\ monitoredPairs' = SetDelete(monitoredPairs, getPairKey(tokenA, tokenB))
  /\ last' = [op |-> "removePair", a |-> tokenA, b |-> tokenB,
              had |-> MatchingEntries(tokenA, tokenB) # {}]
  /\ UNCHANGED <<scanners, ready, clock, pipeVars, valVars, calcVars, subVars>>

\* DexScanner.initialize: isInitialized becomes true unless the provider or
\* the factory does not answer.
InitializeScanner(d, ok) ==
  /\ d \notin ready
  /\ ready' = IF ok THEN ready \cup {d} ELSE ready
  /\ last' = [op |-> "initialize", dex |-> d, ok |-> ok]
  /\ UNCHANGED <<scanners, monitoredPairs, clock, pipeVars, valVars, calcVars, subVars>>

\* One pair scan, as detectOpportunities runs it for a monitored key.
DetectOpportunitiesForPair(i, resp) ==
  LET tokens == parsePairKey(monitoredPairs[i])
  IN  /\ last' = [op |-> "detect", tokenA |-> tokens[1], tokenB |-> tokens[2], resp |-> resp,
                  result |-> detectOpportunitiesForPair(tokens[1], tokens[2], resp, clock)]
      /\ UNCHANGED <<scanners, monitoredPairs, ready, clock, pipeVars, valVars, calcVars, subVars>>

NoPool == [reserve0 |-> 0, reserve1 |-> 0]

\* No subscribeToUpdates, monitorContinuously or unsubscribe call yet.
NoSubscriptions ==
  /\ listeners = {}
  /\ registeredBy = <<>>
  /\ loops = <<>>
  /\ unsubscribed = {}
  /\ subs = <<>>
  /\ notifications = <<>>
  /\ pool = NoPool
  /\ tokenDecimals = <<>>
  /\ priceCalls = <<>>

IdleLoop == [pc |-> "none", pos |-> 0, opps |-> <<>>]
NoConfig == [dryRun |-> TRUE, maxSlippage |-> 0]
NoValidator == [options |-> <<>>, validator |-> <<>>]

InitAgg ==
  /\ scanners = DexNames
  /\ monitoredPairs = <<>>
  /\ ready = {}
  /\ clock = 0
  /\ last = [op |-> "new"]
  /\ isMonitoring = FALSE
  /\ opportunityCallbacks = <<>>
  /\ loop = IdleLoop
  /\ handlers = <<>>
  /\ opportunitiesDetected = 0
  /\ opportunitiesExecuted = 0
  /\ opportunitiesSkipped = 0
  /\ config = NoConfig
  /\ vcfg = NoValidator
  /\ vopp = NoOpportunity
  /\ verdicts = <<>>
  /\ ethPriceUSD = EthPriceUSD
  /\ analyses = <<>>
  /\ NoSubscriptions

NextAgg ==
  \/ \E a \in TokenArgs, b \in TokenArgs : AddPair(a, b)
  \/ \E pairs \in PairLists : AddPairs(pairs)
  \/ \E a \in TokenArgs, b \in TokenArgs : RemovePair(a, b)
  \/ \E d \in SeqToSet(scanners), ok \in BOOLEAN : InitializeScanner(d, ok)
  \/ \E i \in 1..Len(monitoredPairs), resp \in ScanAnswers(AggPrices) : DetectOpportunitiesForPair(i, resp)

SpecAgg == InitAgg /\ [][NextAgg]_vars

(***************************************************************************)
(* One validator, one opportunity, validate called as the clock advances   *)
(* (SpecValidator).                                                        *)
(***************************************************************************)
Absent == [present |-> FALSE, value |-> 0]
Given(x) == [present |-> TRUE, value |-> x]

NoLists == [blacklistedTokens |-> {}, whitelistedTokens |-> {},
            blacklistedDexes |-> {}, useWhitelist |-> FALSE]
WithFloor(lists, floor) ==
  [blacklistedTokens |-> lists.blacklistedTokens, whitelistedTokens |-> lists.whitelistedTokens,
   blacklistedDexes |-> lists.blacklistedDexes, minLiquidityUSD |-> floor,
   useWhitelist |-> lists.useWhitelist]

\* The options tried: each floor without lists, and each list with the
\* floor left out.
ValidatorOptions ==
  {WithFloor(NoLists, f) : f \in {Absent, Given(0), Given(5000), Given(10000)}}
  \cup {WithFloor([NoLists EXCEPT !.blacklistedTokens = {<<"A", "1">>}], Absent),
        WithFloor([NoLists EXCEPT !.blacklistedDexes = {"SushiSwap"}], Absent),
        WithFloor([NoLists EXCEPT !.whitelistedTokens = {<<"A", "B">>}, !.useWhitelist = TRUE], Absent)}

MinProfitUSD == 50

\* The configurations tried: every option list under a minimum profit of
\* $50, and the plain options under one of $100.
ValidatorConfigs ==
  {[options |-> o, minProfitUSD |-> MinProfitUSD] : o \in ValidatorOptions}
  \cup {[options |-> WithFloor(NoLists, Absent), minProfitUSD |-> 2 * MinProfitUSD]}

ValidatorTokens == {<<<<"a", "b">>, <<"a", "1">>>>, <<<<"a", "b">>, <<"z", "z">>>>,
                    <<<<"a", "b">>, <<"A", "B">>>>}
ValidatorVenues == {<<"Uniswap V2", "SushiSwap", <<"e", "1">>>>,
                    <<"Uniswap V2", "Uniswap V2", <<"e", "1">>>>}
ValidatorPrices == {<<100, 101>>, <<100, 120>>, <<1000, 1002>>, <<100, 100>>}
\* 0, 1, 5 and 10 ether: $0, $2000, $10000, $20000
ValidatorLiquidity == {0, parseEther(10), parseEther(50), parseEther(100)}
\* none, nothing, $40, $50 and $60 of ether
ValidatorProfits == {NoProfit, SomeProfit(0), SomeProfit(40 * UnitsPerUSD),
                     SomeProfit(50 * UnitsPerUSD), SomeProfit(60 * UnitsPerUSD)}
ValidatorTimestamps == {1000, 2000, 3000}

ValidatorOpportunities ==
  {OpportunityRecord(<<>>, t[1], t[2], d[1], d[2], p[1] * WeiPerEther, p[2] * WeiPerEther,
                     <<"e", "0">>, d[3], l, ts, pr) :
     t \in ValidatorTokens, d \in ValidatorVenues, p \in ValidatorPrices,
     l \in ValidatorLiquidity, pr \in ValidatorProfits, ts \in ValidatorTimestamps}

\* validator.validate(vopp), with the verdict and the clock it read recorded.
Validate ==
  /\ Len(verdicts) < MaxVerdicts
  /\ verdicts' = Append(verdicts, [at |-> clock, verdict |-> validate(vcfg.validator, vopp, clock)])
  /\ UNCHANGED <<aggVars, clock, pipeVars, vcfg, vopp, calcVars, subVars>>

InitValidator ==
  /\ scanners = <<>>
  /\ monitoredPairs = <<>>
  /\ ready = {}
  /\ clock = 0
  /\ last = [op |-> "new"]
  /\ isMonitoring = FALSE
  /\ opportunityCallbacks = <<>>
  /\ loop = IdleLoop
  /\ handlers = <<>>
  /\ opportunitiesDetected = 0
  /\ opportunitiesExecuted = 0
  /\ opportunitiesSkipped = 0
  /\ config = NoConfig
  /\ \E c \in ValidatorConfigs :
       vcfg = [options |-> c.options, minProfitUSD |-> c.minProfitUSD,
               validator |-> NewValidator(c.minProfitUSD, c.options)]
  /\ vopp \in ValidatorOpportunities
  /\ verdicts = <<>>
  /\ ethPriceUSD = EthPriceUSD
  /\ analyses = <<>>
  /\ NoSubscriptions

NextValidator ==
  \/ Validate
  \/ Tick

SpecValidator == InitValidator /\ [][NextValidator]_vars

(***************************************************************************)
(* The bot after startup (Spec): main has initialized both scanners,       *)
(* added the one pair and built the validator; monitorOpportunities polls  *)
(* and hands every opportunity to handleOpportunity, which is not awaited. *)
(* The results of the external ContractInteractor are chosen freely.       *)
(***************************************************************************)
WETH == <<"A", "B">>
USDC == <<"a", "1">>
MainScanners == <<"Uniswap V2", "SushiSwap">>
MainValidatorOptions ==
  [blacklistedTokens |-> {}, whitelistedTokens |-> {}, blacklistedDexes |-> {},
   minLiquidityUSD |-> Given(10000), useWhitelist |-> FALSE]

\* config.network, as loadNetworkConfig builds it without environment
\* overrides, but for the dry-run flag and the slippage limit.
NetworkConfig(dryRun, maxSlippage) ==
  [aaveFee |-> Given(9),
   dexFee |-> [d \in {"Uniswap V2", "SushiSwap", "Uniswap V3"} |-> Given(30)],
   minProfitUSD |-> 50, minProfitPercentage |-> 50, maxGasPrice |-> 100,
   maxSlippage |-> maxSlippage, maxTradeSize |-> parseEther(100), dryRun |-> dryRun]

\* The quotes tried in a poll: 1, 1.05 or 10 tokens on the first venue, 1.01
\* tokens or nothing on the second (a zero quote makes the scan throw).  The opportunity between 1 and 1.01 is worth $20
\* to the validator, the one between 1.01 and 1.05 is worth $80 and less
\* than its costs, and the one between 1.01 and 10 pays.
MainPrices ==
  [d \in SeqToSet(MainScanners) |->
     IF d = "Uniswap V2" THEN {WeiPerEther, 105 * (WeiPerEther \div 100), 10 * WeiPerEther}
     ELSE {0, 101 * (WeiPerEther \div 100)}]

\* detectOpportunities: the opportunities of every monitored pair, in order;
\* a pair whose scan throws contributes none.
RECURSIVE detectOpportunities(_, _, _)
detectOpportunities(keys, resps, now) ==
  IF Len(keys) = 0 THEN <<>>
  ELSE LET tokens == parsePairKey(Head(keys))
           scan == detectOpportunitiesForPair(tokens[1], tokens[2], Head(resps), now)
       IN  scan.opps \o detectOpportunities(Tail(keys), Tail(resps), now)

NoAnalysis == [isExecutable |-> FALSE, recommendedAmount |-> 0]
NoCall == <<>>

\* One invocation of handleOpportunity: where it stands, what it was told
\* and what it called.
HandlerRecord(o, validation, pc, outcome) ==
  [opp |-> o, validation |-> validation, pc |-> pc, outcome |-> outcome,
   scored |-> FALSE, analysis |-> NoAnalysis,
   sim |-> "none", simArgs |-> NoCall, exec |-> "none", execArgs |-> NoCall]

\* handleOpportunity behind a lock per pair and venues: an opportunity whose
\* pair and venues another invocation is still handling is dropped.
StartHandlerLocked(o, now) ==
  LET validation == validate(vcfg.validator, o, now)
      held == \E i \in 1..Len(handlers) :
                /\ handlers[i].pc # "done"
                /\ handlers[i].opp.tokenIn = o.tokenIn /\ handlers[i].opp.tokenOut = o.tokenOut
                /\ handlers[i].opp.buyDex = o.buyDex /\ handlers[i].opp.sellDex = o.sellDex
  IN  IF ~validation.isValid THEN HandlerRecord(o, validation, "done", "rejected")
      ELSE IF held THEN HandlerRecord(o, validation, "done", "rejected")
      ELSE HandlerRecord(o, validation, "profit", "")

StartHandlerUnscreened(o, now) ==
  HandlerRecord(o, validate(vcfg.validator, o, now), "profit", "")

\* handleOpportunity up to its first await: validate, and return on a
\* rejection.
StartHandler(o, now) ==
  LET validation == validate(vcfg.validator, o, now)
  IN  IF ~validation.isValid THEN HandlerRecord(o, validation, "done", "rejected")
      ELSE HandlerRecord(o, validation, "profit", "")

SimulationCall(h, analysis) ==
  [provider |-> "aave", token |-> h.opp.tokenIn, amount |-> analysis.recommendedAmount,
   buyDex |-> h.opp.buyDex, sellDex |-> h.opp.sellDex]

\* handleOpportunity without the test of config.network.execution.dryRun.
AfterProfitLive(h, analysis) ==
  LET scored == [h EXCEPT !.scored = TRUE, !.analysis = analysis]
  IN  IF ~analysis.isExecutable
      THEN [scored EXCEPT !.pc = "done", !.outcome = "notExecutable"]
      ELSE [scored EXCEPT !.pc = "simulating", !.sim = "pending",
                          !.simArgs = SimulationCall(h, analysis)]

\* handleOpportunity from the analysis to the simulation call.
AfterProfit(h, analysis) ==
  LET scored == [h EXCEPT !.scored = TRUE, !.analysis = analysis]
  IN  IF ~analysis.isExecutable
      THEN [scored EXCEPT !.pc = "done", !.outcome = "notExecutable"]
      ELSE IF ~config.dryRun
      THEN [scored EXCEPT !.pc = "simulating", !.sim = "pending",
                          !.simArgs = SimulationCall(h, analysis)]
      ELSE [scored EXCEPT !.pc = "done", !.outcome = "dryRun"]

AfterSimulationCommitAlways(h, res) ==
  IF res = "throw" THEN [h EXCEPT !.sim = res, !.pc = "done", !.outcome = "error"]
  ELSE [h EXCEPT !.sim = res, !.pc = "executing", !.exec = "pending",
                 !.execArgs = [opportunity |-> h.opp, amount |-> h.analysis.recommendedAmount]]

\* handleOpportunity from the simulation's answer to the commit call.
AfterSimulation(h, res) ==
  IF res = "throw" THEN [h EXCEPT !.sim = res, !.pc = "done", !.outcome = "error"]
  ELSE IF res = "fail" THEN [h EXCEPT !.sim = res, !.pc = "done", !.outcome = "simFailed"]
  ELSE [h EXCEPT !.sim = res, !.pc = "executing", !.exec = "pending",
                 !.execArgs = [opportunity |-> h.opp, amount |-> h.analysis.recommendedAmount]]

\* handleOpportunity from the commit's answer to its end; a successful
\* result without a profit makes formatEther throw after the count.
AfterExecution(h, res) ==
  [h EXCEPT !.exec = res, !.pc = "done",
            !.outcome = CASE res = "ok" -> "executed"
                          [] res = "okNoProfit" -> "executedThenError"
                          [] res = "fail" -> "execFailed"
                          [] res = "throw" -> "error"]

Skips(h) == IF h.outcome \in {"rejected", "notExecutable", "dryRun", "simFailed",
                              "execFailed", "error", "executedThenError"} THEN 1 ELSE 0
Executions(h) == IF h.outcome \in {"executed", "executedThenError"} THEN 1 ELSE 0

RECURSIVE SumSkips(_)
SumSkips(hs) == IF Len(hs) = 0 THEN 0 ELSE Skips(Head(hs)) + SumSkips(Tail(hs))

\* The calls cb(opportunity): every callback for every opportunity, in order.
Deliveries(opps, callbacks) ==
  [k \in 1..(Len(opps) * Len(callbacks)) |-> opps[((k - 1) \div Len(callbacks)) + 1]]

MonitorContinuously ==
  /\ loop.pc = "none"
  /\ ~isMonitoring
  /\ isMonitoring' = TRUE
  /\ opportunityCallbacks' = Append(opportunityCallbacks, "handleOpportunity")
  /\ registeredBy' = Append(registeredBy, "monitorContinuously")
  /\ loop' = [loop EXCEPT !.pc = "detect"]
  /\ UNCHANGED <<aggVars, clock, handlers, opportunitiesDetected, opportunitiesExecuted,
                 opportunitiesSkipped, config, valVars, calcVars, listeners, loops, unsubscribed, scanVars>>

\* detectOpportunities returns and the loop calls the callbacks, each of
\* which runs up to its first await; then the loop sleeps.
Poll(resps) ==
  LET opps == detectOpportunities(monitoredPairs, resps, clock)
      calls == Deliveries(opps, opportunityCallbacks)
      started == [k \in 1..Len(calls) |-> StartHandler(calls[k], clock)]
  IN  /\ loop.pc = "detect"
      /\ Len(handlers) + Len(started) <= MaxHandlers
      /\ handlers' = handlers \o started
      /\ opportunitiesDetected' = opportunitiesDetected + Len(started)
      /\ opportunitiesSkipped' = opportunitiesSkipped + SumSkips(started)
      /\ loop' = [loop EXCEPT !.pc = "sleep", !.opps = opps]
      /\ last' = [op |-> "poll",
                  queryFailed |-> \E k \in DOMAIN resps : \E d \in DOMAIN resps[k] :
                                    resps[k][d] = GetPriceFails,
                  scanThrew |-> \E k \in DOMAIN resps :
                                  LET tokens == parsePairKey(monitoredPairs[k])
                                  IN  detectOpportunitiesForPair(tokens[1], tokens[2],
                                                                 resps[k], clock).threw]
      /\ UNCHANGED <<scanners, monitoredPairs, ready, clock, isMonitoring, opportunityCallbacks,
                     opportunitiesExecuted, config, valVars, calcVars, subVars>>

\* The loop without its test: while (true).
WakeWithoutTest ==
  /\ loop.pc = "sleep"
  /\ loop' = [loop EXCEPT !.pc = "detect"]
  /\ UNCHANGED <<aggVars, clock, isMonitoring, opportunityCallbacks, handlers,
                 opportunitiesDetected, opportunitiesExecuted, opportunitiesSkipped,
                 config, valVars, calcVars, subVars>>

\* sleep(intervalMs) ends and the loop tests isMonitoring.
Wake ==
  /\ loop.pc = "sleep"
  /\ loop' = [loop EXCEPT !.pc = IF isMonitoring THEN "detect" ELSE "returned"]
  /\ UNCHANGED <<aggVars, clock, isMonitoring, opportunityCallbacks, handlers,
                 opportunitiesDetected, opportunitiesExecuted, opportunitiesSkipped,
                 config, valVars, calcVars, subVars>>

\* shutdown without aggregator.unsubscribe().
ShutdownStopOnly ==
  /\ loop.pc \in {"detect", "sleep"}
  /\ isMonitoring' = FALSE
  /\ loop' = [loop EXCEPT !.pc = "exited"]
  /\ UNCHANGED <<aggVars, clock, opportunityCallbacks, handlers, opportunitiesDetected,
                 opportunitiesExecuted, opportunitiesSkipped, config, valVars, calcVars, subVars>>

\* SIGINT or SIGTERM: stopMonitoring, unsubscribe (scanner.unsubscribe() on
\* every scanner of the registry, then the callbacks are dropped),
\* process.exit.
Shutdown ==
  /\ loop.pc \in {"detect", "sleep"}
  /\ isMonitoring' = FALSE
  /\ unsubscribed' = unsubscribed \cup SeqToSet(scanners)
  /\ listeners' = {}
  /\ opportunityCallbacks' = <<>>
  /\ registeredBy' = <<>>
  /\ loop' = [loop EXCEPT !.pc = "exited"]
  /\ UNCHANGED <<aggVars, clock, handlers, opportunitiesDetected, opportunitiesExecuted,
                 opportunitiesSkipped, config, valVars, calcVars, loops, scanVars>>

\* handleOpportunity without its catch: the rejection of its promise is
\* unhandled and ends the process.
ResumeUncaught(i, h) ==
  /\ handlers' = [handlers EXCEPT ![i] = h]
  /\ opportunitiesSkipped' = opportunitiesSkipped + Skips(h)
  /\ opportunitiesExecuted' = opportunitiesExecuted + Executions(h)
  /\ loop' = IF h.outcome = "error" THEN [loop EXCEPT !.pc = "crashed"] ELSE loop
  /\ UNCHANGED <<aggVars, clock, isMonitoring, opportunityCallbacks,
                 opportunitiesDetected, config, valVars, calcVars, subVars>>

Resume(i, h) ==
  /\ handlers' = [handlers EXCEPT ![i] = h]
  /\ opportunitiesSkipped' = opportunitiesSkipped + Skips(h)
  /\ opportunitiesExecuted' = opportunitiesExecuted + Executions(h)
  /\ UNCHANGED <<aggVars, clock, isMonitoring, opportunityCallbacks, loop,
                 opportunitiesDetected, config, valVars, calcVars, subVars>>

\* calculateProfit resolves.
HandlerProfit(i) ==
  /\ loop.pc # "exited"
  /\ handlers[i].pc = "profit"
  /\ IF calculateProfitThrows(config, handlers[i].opp)
     THEN Resume(i, [handlers[i] EXCEPT !.pc = "done", !.outcome = "error"])
     ELSE Resume(i, AfterProfit(handlers[i], calculateProfit(config, handlers[i].opp)))

\* simulateExecution resolves or rejects.
HandlerSimulated(i, res) ==
  /\ loop.pc # "exited"
  /\ handlers[i].pc = "simulating"
  /\ Resume(i, AfterSimulation(handlers[i], res))

\* executeAaveArbitrage resolves or rejects.
HandlerExecuted(i, res) ==
  /\ loop.pc # "exited"
  /\ handlers[i].pc = "executing"
  /\ Resume(i, AfterExecution(handlers[i], res))

Init ==
  /\ scanners = MainScanners
  /\ monitoredPairs = SetAdd(<<>>, getPairKey(WETH, USDC))
  /\ ready = SeqToSet(MainScanners)
  /\ clock = 0
  /\ last = [op |-> "new"]
  /\ isMonitoring = FALSE
  /\ opportunityCallbacks = <<>>
  /\ loop = IdleLoop
  /\ handlers = <<>>
  /\ opportunitiesDetected = 0
  /\ opportunitiesExecuted = 0
  /\ opportunitiesSkipped = 0
  /\ \E dryRun \in BOOLEAN, maxSlippage \in {50, 100} : config = NetworkConfig(dryRun, maxSlippage)
  /\ vcfg = [options |-> MainValidatorOptions,
             validator |-> NewValidator(NetworkConfig(FALSE, 50).minProfitUSD, MainValidatorOptions)]
  /\ vopp = NoOpportunity
  /\ verdicts = <<>>
  /\ ethPriceUSD = EthPriceUSD
  /\ analyses = <<>>
  /\ NoSubscriptions

Next ==
  \/ MonitorContinuously
  \/ \E resps \in [1..Len(monitoredPairs) -> ScanAnswers(MainPrices)] : Poll(resps)
  \/ Wake
  \/ Shutdown
  \/ \E i \in 1..Len(handlers) : HandlerProfit(i)
  \/ \E i \in 1..Len(handlers), res \in {"ok", "fail", "throw"} : HandlerSimulated(i, res)
  \/ \E i \in 1..Len(handlers), res \in {"ok", "okNoProfit", "fail", "throw"} : HandlerExecuted(i, res)

Spec == Init /\ [][Next]_vars

\* The promise of detectOpportunities settles and the timer of sleep fires.
SpecLive ==
  /\ Init
  /\ [][Next]_vars
  /\ WF_vars(\E resps \in [1..Len(monitoredPairs) -> ScanAnswers(MainPrices)] : Poll(resps))
  /\ WF_vars(Wake)

(***************************************************************************)
(* One ProfitCalculator analysing one opportunity, its ETH price updated   *)
(* between the calls (SpecCalc).                                           *)
(***************************************************************************)
\* config.network as loadNetworkConfig builds it, the slippage limit and
\* the gas ceiling (in gwei) overridden by the environment.
CalcConfigs ==
  {[NetworkConfig(FALSE, s) EXCEPT !.maxGasPrice = g] : s \in {50, 100}, g \in {10, 100}}

\* The quotes of the two venues, as <<buy, sell>>: 1000 and 1010 tokens and
\* their reverse, equal quotes, and 1 token against 1.01 and 1.02.
CalcPrices ==
  {<<1000 * WeiPerEther, 1010 * WeiPerEther>>, <<1010 * WeiPerEther, 1000 * WeiPerEther>>,
   <<1000 * WeiPerEther, 1000 * WeiPerEther>>,
   <<WeiPerEther, 101 * (WeiPerEther \div 100)>>, <<WeiPerEther, 102 * (WeiPerEther \div 100)>>}

\* 10^13 wei, and 10, 25 ($50,000) and 1000 ether
CalcLiquidity == {1, parseEther(100), parseEther(250), parseEther(10000)}

\* The opportunity the aggregator builds from two quotes, with the
\* liquidity it would fetch in place of its placeholder.
CalcOpportunities ==
  {[makeOpportunity(WETH, USDC, "Uniswap V2", "SushiSwap",
                    Quote("Uniswap V2", p[1]), Quote("SushiSwap", p[2]), 0)
      EXCEPT !.availableLiquidity = l] : p \in CalcPrices, l \in CalcLiquidity}

EthPrices == {1000, 2000, 4000}

\* calculator.calculateProfit(vopp), with the result and the price it read
\* recorded.
CalculateProfit ==
  /\ Len(analyses) < MaxAnalyses
  /\ analyses' = Append(analyses,
        [ethPriceUSD |-> ethPriceUSD,
         result |-> IF calculateProfitThrows(config, vopp)
                    THEN [kind |-> "throw", analysis |-> NoAnalysis]
                    ELSE [kind |-> "ok", analysis |-> calculateProfit(config, vopp)]])
  /\ UNCHANGED <<aggVars, clock, pipeVars, valVars, ethPriceUSD, subVars>>

\* calculator.updateEthPrice(priceUSD)
UpdateEthPrice(priceUSD) ==
  /\ ethPriceUSD' = priceUSD
  /\ UNCHANGED <<aggVars, clock, pipeVars, valVars, analyses, subVars>>

InitCalc ==
  /\ scanners = MainScanners
  /\ monitoredPairs = SetAdd(<<>>, getPairKey(WETH, USDC))
  /\ ready = SeqToSet(MainScanners)
  /\ clock = 0
  /\ last = [op |-> "new"]
  /\ isMonitoring = FALSE
  /\ opportunityCallbacks = <<>>
  /\ loop = IdleLoop
  /\ handlers = <<>>
  /\ opportunitiesDetected = 0
  /\ opportunitiesExecuted = 0
  /\ opportunitiesSkipped = 0
  /\ config \in CalcConfigs
  /\ vcfg = [options |-> MainValidatorOptions,
             validator |-> NewValidator(NetworkConfig(FALSE, 50).minProfitUSD, MainValidatorOptions)]
  /\ vopp \in CalcOpportunities
  /\ verdicts = <<>>
  /\ ethPriceUSD = EthPriceUSD
  /\ analyses = <<>>
  /\ NoSubscriptions

NextCalc ==
  \/ CalculateProfit
  \/ \E priceUSD \in EthPrices : UpdateEthPrice(priceUSD)

SpecCalc == InitCalc /\ [][NextCalc]_vars

(***************************************************************************)
(* One ProfitCalculator under the fees, gas ceilings and trade sizes a     *)
(* deployment may configure (SpecFees).                                    *)
(***************************************************************************)
\* config.network with the Aave fee (hundredths of a percent), the fee of
\* every venue (basis points), the gas ceiling (gwei) and the largest trade
\* (0.05, 1 and 10 ether) set by the deployment.
FeeConfigs ==
  {[NetworkConfig(FALSE, 100) EXCEPT !.aaveFee = Given(aave),
                                     !.dexFee = [d \in DOMAIN @ |-> Given(dex)],
                                     !.maxGasPrice = gas, !.maxTradeSize = size] :
     aave \in {0, 9}, dex \in {0, 5, 30}, gas \in {0, 100},
     size \in {WeiPerEther \div 20, parseEther(10), parseEther(100)}}

\* Quotes of 100 and 105 and of 1000 and 1010 tokens; a liquidity of 10^13
\* wei and of 0.5, 10 and 1000 ether.
FeeOpportunities ==
  {[makeOpportunity(WETH, USDC, "Uniswap V2", "SushiSwap",
                    Quote("Uniswap V2", p[1]), Quote("SushiSwap", p[2]), 0)
      EXCEPT !.availableLiquidity = l] :
     p \in {<<100 * WeiPerEther, 105 * WeiPerEther>>, <<1000 * WeiPerEther, 1010 * WeiPerEther>>},
     l \in {1, parseEther(5), parseEther(100), parseEther(10000)}}

InitFees ==
  /\ scanners = MainScanners
  /\ monitoredPairs = SetAdd(<<>>, getPairKey(WETH, USDC))
  /\ ready = SeqToSet(MainScanners)
  /\ clock = 0
  /\ last = [op |-> "new"]
  /\ isMonitoring = FALSE
  /\ opportunityCallbacks = <<>>
  /\ loop = IdleLoop
  /\ handlers = <<>>
  /\ opportunitiesDetected = 0
  /\ opportunitiesExecuted = 0
  /\ opportunitiesSkipped = 0
  /\ config \in FeeConfigs
  /\ vcfg = [options |-> MainValidatorOptions,
             validator |-> NewValidator(NetworkConfig(FALSE, 50).minProfitUSD, MainValidatorOptions)]
  /\ vopp \in FeeOpportunities
  /\ verdicts = <<>>
  /\ ethPriceUSD = EthPriceUSD
  /\ analyses = <<>>
  /\ NoSubscriptions

SpecFees == InitFees /\ [][CalculateProfit]_vars

(***************************************************************************)
(* The aggregator's monitoring API driven by a client that registers       *)
(* callbacks of its own (SpecMonitor).                                     *)
(***************************************************************************)
\* The callbacks a client registers: one that returns and one that throws.
MonitorCallbacks == {"returns", "throws"}

\* The quotes tried: 1000 and 1010 tokens on the first two venues, nothing
\* or 1020 tokens on the third.
MonitorPrices ==
  [d \in SeqToSet(DexNames) |->
     CASE d = "Uniswap V2" -> {1000 * WeiPerEther}
       [] d = "SushiSwap" -> {1010 * WeiPerEther}
       [] OTHER -> {0, 1020 * WeiPerEther}]

\* cb(opportunity) throws
CallbackThrows(cb, o) == cb = "throws"

\* The two loops without the try around cb(opportunity): the first throw
\* leaves both.
FanOutUntilThrow(opps, callbacks) ==
  LET n == Len(callbacks)
      all == [k \in 1..(Len(opps) * n) |->
                [opportunity |-> opps[((k - 1) \div n) + 1],
                 callback |-> callbacks[((k - 1) % n) + 1],
                 threw |-> CallbackThrows(callbacks[((k - 1) % n) + 1], opps[((k - 1) \div n) + 1])]]
      throwing == {k \in 1..Len(all) : all[k].threw}
  IN  IF throwing = {} THEN all
      ELSE SubSeq(all, 1, CHOOSE k \in throwing : \A m \in throwing : k <= m)

\* for (opportunity of opportunities) for (cb of opportunityCallbacks)
\* try { cb(opportunity) } catch { log }: the calls made, in order.
FanOut(opps, callbacks) ==
  LET n == Len(callbacks)
  IN  [k \in 1..(Len(opps) * n) |->
         LET o == opps[((k - 1) \div n) + 1]
             cb == callbacks[((k - 1) % n) + 1]
         IN  [opportunity |-> o, callback |-> cb, threw |-> CallbackThrows(cb, o)]]

\* aggregator.monitorContinuously(cb) while not monitoring.
ClientMonitorContinuously(cb) ==
  /\ loop.pc = "none"
  /\ ~isMonitoring
  /\ Len(opportunityCallbacks) < MaxCallbacks
  /\ isMonitoring' = TRUE
  /\ opportunityCallbacks' = Append(opportunityCallbacks, cb)
  /\ registeredBy' = Append(registeredBy, "monitorContinuously")
  /\ loop' = [loop EXCEPT !.pc = "detect"]
  /\ UNCHANGED <<aggVars, clock, handlers, opportunitiesDetected, opportunitiesExecuted,
                 opportunitiesSkipped, config, valVars, calcVars, listeners, loops, unsubscribed, scanVars>>

\* aggregator.subscribeToUpdates(cb): a listener per monitored pair and
\* scanner, which keeps the two tokens of its pair.
SubscribeToUpdates(cb) ==
  /\ Len(opportunityCallbacks) < MaxCallbacks
  /\ opportunityCallbacks' = Append(opportunityCallbacks, cb)
  /\ registeredBy' = Append(registeredBy, "subscribeToUpdates")
  /\ listeners' = listeners \cup ({parsePairKey(monitoredPairs[i]) : i \in 1..Len(monitoredPairs)}
                                   \X SeqToSet(scanners))
  /\ UNCHANGED <<aggVars, clock, isMonitoring, loop, handlers, opportunitiesDetected,
                 opportunitiesExecuted, opportunitiesSkipped, config, valVars, calcVars,
                 loops, unsubscribed, scanVars>>

\* One pass of the loop body: detectOpportunities returns, the callbacks
\* are called, and the loop sleeps.
MonitorCycle(resps) ==
  LET opps == detectOpportunities(monitoredPairs, resps, clock)
  IN  /\ loop.pc = "detect"
      /\ loop' = [loop EXCEPT !.pc = "sleep"]
      /\ last' = [op |-> "poll", opps |-> opps, callbacks |-> opportunityCallbacks,
                  by |-> registeredBy, calls |-> FanOut(opps, opportunityCallbacks)]
      /\ UNCHANGED <<scanners, monitoredPairs, ready, clock, isMonitoring, opportunityCallbacks,
                     handlers, opportunitiesDetected, opportunitiesExecuted,
                     opportunitiesSkipped, config, valVars, calcVars, subVars>>

\* The listener calling only the callbacks that subscribeToUpdates
\* registered.
PriceUpdateOwnCallbacks(l, resp) ==
  LET tokens == l[1]
      scan == detectOpportunitiesForPair(tokens[1], tokens[2], resp, clock)
      own == {j \in 1..Len(registeredBy) : registeredBy[j] = "subscribeToUpdates"}
      callbacks == SelectSeq(opportunityCallbacks, LAMBDA cb :
                     \E j \in own : opportunityCallbacks[j] = cb)
  IN  /\ l \in listeners
      /\ last' = [op |-> "event", opps |-> scan.opps, callbacks |-> opportunityCallbacks,
                  by |-> registeredBy, calls |-> FanOut(scan.opps, callbacks)]
      /\ UNCHANGED <<scanners, monitoredPairs, ready, clock, pipeVars, valVars, calcVars, subVars>>

\* A scanner reports a price update to a listener: the pair is scanned and
\* the callbacks are called; a scan that throws rejects the listener's
\* promise and nothing is delivered.
PriceUpdate(l, resp) ==
  LET tokens == l[1]
      scan == detectOpportunitiesForPair(tokens[1], tokens[2], resp, clock)
  IN  /\ l \in listeners
      /\ last' = [op |-> "event", opps |-> scan.opps, callbacks |-> opportunityCallbacks,
                  by |-> registeredBy, calls |-> FanOut(scan.opps, opportunityCallbacks)]
      /\ UNCHANGED <<scanners, monitoredPairs, ready, clock, pipeVars, valVars, calcVars, subVars>>

\* aggregator.stopMonitoring()
StopMonitoring ==
  /\ isMonitoring
  /\ isMonitoring' = FALSE
  /\ UNCHANGED <<aggVars, clock, opportunityCallbacks, loop, handlers, opportunitiesDetected,
                 opportunitiesExecuted, opportunitiesSkipped, config, valVars, calcVars, subVars>>

\* aggregator.unsubscribe(): scanner.unsubscribe() on every scanner of the
\* registry, then the callbacks are dropped.
Unsubscribe ==
  /\ opportunityCallbacks # <<>>
  /\ unsubscribed' = unsubscribed \cup SeqToSet(scanners)
  /\ opportunityCallbacks' = <<>>
  /\ registeredBy' = <<>>
  /\ listeners' = {}
  /\ UNCHANGED <<aggVars, clock, isMonitoring, loop, handlers, opportunitiesDetected,
                 opportunitiesExecuted, opportunitiesSkipped, config, valVars, calcVars, loops, scanVars>>

InitMonitor ==
  /\ scanners = DexNames
  /\ monitoredPairs = SetAdd(<<>>, getPairKey(WETH, USDC))
  /\ ready = SeqToSet(DexNames)
  /\ clock = 0
  /\ last = [op |-> "new"]
  /\ isMonitoring = FALSE
  /\ opportunityCallbacks = <<>>
  /\ loop = IdleLoop
  /\ handlers = <<>>
  /\ opportunitiesDetected = 0
  /\ opportunitiesExecuted = 0
  /\ opportunitiesSkipped = 0
  /\ config = NoConfig
  /\ vcfg = NoValidator
  /\ vopp = NoOpportunity
  /\ verdicts = <<>>
  /\ ethPriceUSD = EthPriceUSD
  /\ analyses = <<>>
  /\ NoSubscriptions

NextMonitor ==
  \/ \E cb \in MonitorCallbacks : ClientMonitorContinuously(cb)
  \/ \E cb \in MonitorCallbacks : SubscribeToUpdates(cb)
  \/ \E resps \in [1..Len(monitoredPairs) -> ScanAnswers(MonitorPrices)] : MonitorCycle(resps)
  \/ \E l \in listeners, resp \in ScanAnswers(MonitorPrices) : PriceUpdate(l, resp)
  \/ Wake
  \/ StopMonitoring
  \/ Unsubscribe

SpecMonitor == InitMonitor /\ [][NextMonitor]_vars

\* The promise of detectOpportunities settles and the timer of sleep fires.
SpecMonitorLive ==
  /\ InitMonitor
  /\ [][NextMonitor]_vars
  /\ WF_vars(\E resps \in [1..Len(monitoredPairs) -> ScanAnswers(MonitorPrices)] : MonitorCycle(resps))
  /\ WF_vars(Wake)

(***************************************************************************)
(* The aggregator's monitoring API called in any order by a client, which  *)
(* may call monitorContinuously again (SpecClient).  Every call that       *)
(* starts a loop has an entry in loops.                                    *)
(***************************************************************************)
\* aggregator.monitorContinuously(cb): returns at once while monitoring,
\* else sets the flag, pushes cb and enters the loop, whose first cycle
\* starts.
CallMonitorContinuously(cb) ==
  /\ isMonitoring \/ (Len(loops) < MaxLoops /\ Len(opportunityCallbacks) < MaxCallbacks)
  /\ IF isMonitoring
     THEN /\ last' = [op |-> "monitorContinuously", started |-> FALSE]
          /\ UNCHANGED <<isMonitoring, opportunityCallbacks, registeredBy, loops>>
     ELSE /\ last' = [op |-> "monitorContinuously", started |-> TRUE]
          /\ isMonitoring' = TRUE
          /\ opportunityCallbacks' = Append(opportunityCallbacks, cb)
          /\ registeredBy' = Append(registeredBy, "monitorContinuously")
          /\ loops' = Append(loops, "detect")
  /\ UNCHANGED <<scanners, monitoredPairs, ready, clock, loop, handlers,
                 opportunitiesDetected, opportunitiesExecuted, opportunitiesSkipped,
                 config, valVars, calcVars, listeners, unsubscribed, scanVars>>

\* Mutant of LoopCycle: a pair whose scan throws is dropped from the
\* monitored pairs.
LoopCycleDropsFailing(k, resps) ==
  LET opps == detectOpportunities(monitoredPairs, resps, clock)
      Threw(i) == LET tokens == parsePairKey(monitoredPairs[i])
                  IN  detectOpportunitiesForPair(tokens[1], tokens[2], resps[i], clock).threw
      kept == {i \in 1..Len(monitoredPairs) : ~Threw(i)}
  IN  /\ loops[k] = "detect"
      /\ loops' = [loops EXCEPT ![k] = "sleep"]
      /\ last' = [op |-> "poll", opps |-> opps, callbacks |-> opportunityCallbacks,
                  by |-> registeredBy, calls |-> FanOut(opps, opportunityCallbacks)]
      /\ monitoredPairs' = SelectSeq(monitoredPairs, LAMBDA key :
                              \E i \in kept : monitoredPairs[i] = key)
      /\ UNCHANGED <<scanners, ready, clock, pipeVars, valVars, calcVars,
                     listeners, registeredBy, unsubscribed, scanVars>>

\* The body of loop k: detectOpportunities returns, the callbacks are
\* called, and the loop sleeps.
LoopCycle(k, resps) ==
  LET opps == detectOpportunities(monitoredPairs, resps, clock)
  IN  /\ loops[k] = "detect"
      /\ loops' = [loops EXCEPT ![k] = "sleep"]
      /\ last' = [op |-> "poll", opps |-> opps, callbacks |-> opportunityCallbacks,
                  by |-> registeredBy, calls |-> FanOut(opps, opportunityCallbacks)]
      /\ UNCHANGED <<scanners, monitoredPairs, ready, clock, pipeVars, valVars, calcVars,
                     listeners, registeredBy, unsubscribed, scanVars>>

\* The sleep of loop k ends and the loop tests isMonitoring.
LoopWake(k) ==
  /\ loops[k] = "sleep"
  /\ loops' = [loops EXCEPT ![k] = IF isMonitoring THEN "detect" ELSE "returned"]
  /\ UNCHANGED <<aggVars, clock, pipeVars, valVars, calcVars,
                 listeners, registeredBy, unsubscribed, scanVars>>

\* The client passes its returning callback to monitorContinuously and
\* either callback to subscribeToUpdates.
NextClient ==
  \/ CallMonitorContinuously("returns")
  \/ \E cb \in MonitorCallbacks : SubscribeToUpdates(cb)
  \/ \E k \in 1..Len(loops) :
       \E resps \in [1..Len(monitoredPairs) -> ScanAnswers(MonitorPrices)] : LoopCycle(k, resps)
  \/ \E k \in 1..Len(loops) : LoopWake(k)
  \/ \E l \in listeners, resp \in ScanAnswers(MonitorPrices) : PriceUpdate(l, resp)
  \/ StopMonitoring
  \/ Unsubscribe

\* The aggregator main builds: two scanners, both ready, and one pair.
InitClient ==
  /\ scanners = MainScanners
  /\ monitoredPairs = SetAdd(<<>>, getPairKey(WETH, USDC))
  /\ ready = SeqToSet(MainScanners)
  /\ clock = 0
  /\ last = [op |-> "new"]
  /\ isMonitoring = FALSE
  /\ opportunityCallbacks = <<>>
  /\ loop = IdleLoop
  /\ handlers = <<>>
  /\ opportunitiesDetected = 0
  /\ opportunitiesExecuted = 0
  /\ opportunitiesSkipped = 0
  /\ config = NoConfig
  /\ vcfg = NoValidator
  /\ vopp = NoOpportunity
  /\ verdicts = <<>>
  /\ ethPriceUSD = EthPriceUSD
  /\ analyses = <<>>
  /\ NoSubscriptions

SpecClient == InitClient /\ [][NextClient]_vars

(***************************************************************************)
(* One UniswapV2Scanner and the pair contract of WETH/USDC (SpecScanner):  *)
(* getPrice, subscribeToPriceUpdates, the Sync events of the pair, and     *)
(* unsubscribe.  What the ethers library and the chain answer is chosen    *)
(* freely.                                                                 *)
(***************************************************************************)
RECURSIVE Pow10(_)
Pow10(n) == IF n = 0 THEN 1 ELSE 10 * Pow10(n - 1)

sortTokens(tokenA, tokenB) ==
  LET token0 == IF StrLess(ToLowerCase(tokenA), ToLowerCase(tokenB)) THEN tokenA ELSE tokenB
      token1 == IF token0 = tokenA THEN tokenB ELSE tokenA
  IN  [token0 |-> token0, token1 |-> token1]

\* The reserves are raw token amounts; the prices are 18-decimal
\* fixed-point numbers counted in units of 10^13 wei, which is the code's
\* quotient divided by 10^13 and truncated.
calculatePrice(reserve0, reserve1, decimals0, decimals1) ==
  LET adjustedReserve0 == reserve0 * Pow10(18 - decimals0)
      adjustedReserve1 == reserve1 * Pow10(18 - decimals1)
  IN  [price |-> MulDiv(adjustedReserve1, WeiPerEther, adjustedReserve0),
       inversePrice |-> MulDiv(adjustedReserve0, WeiPerEther, adjustedReserve1)]

\* getPrice on a pair whose contract answers with the reserves and the
\* decimals of p.
getPrice(p, tokenA, tokenB) ==
  LET decimalsA == p.decimals[tokenA]
      decimalsB == p.decimals[tokenB]
      isToken0 == ToLowerCase(sortTokens(tokenA, tokenB).token0) = ToLowerCase(tokenA)
      c == calculatePrice(IF isToken0 THEN p.reserve0 ELSE p.reserve1,
                          IF isToken0 THEN p.reserve1 ELSE p.reserve0,
                          IF isToken0 THEN decimalsA ELSE decimalsB,
                          IF isToken0 THEN decimalsB ELSE decimalsA)
  IN  [tokenA |-> tokenA, tokenB |-> tokenB,
       price |-> IF isToken0 THEN c.price ELSE c.inversePrice,
       inversePrice |-> IF isToken0 THEN c.inversePrice ELSE c.price]

\* The raw reserves and the decimals tried.
PoolReserves == {1000, 2000}
PoolDecimals == {[t \in {WETH, USDC} |-> 18], [t \in {WETH, USDC} |-> IF t = USDC THEN 17 ELSE 18]}

\* scanner.getPrice(tokenA, tokenB) resolves.
ScannerGetPrice(tokenA, tokenB) ==
  /\ last' = [op |-> "getPrice", pool |-> pool, quote |-> getPrice(pool, tokenA, tokenB)]
  /\ UNCHANGED <<scanners, monitoredPairs, ready, clock, pipeVars, valVars, calcVars, subVars>>

\* scanner.subscribeToPriceUpdates(tokenA, tokenB, callback) returns with
\* its getPairAddress promise pending.
SubscribeToPriceUpdates ==
  /\ Len(subs) < MaxSubscriptions
  /\ subs' = Append(subs, [state |-> "resolving", released |-> FALSE])
  /\ UNCHANGED <<aggVars, clock, pipeVars, valVars, calcVars,
                 listeners, registeredBy, loops, unsubscribed, notifications, pool, cacheVars>>

\* The getPairAddress promise of subscription k settles: with the pair's
\* address, and pairContract.on('Sync', ...) adds the listener or throws;
\* with the zero address; or by rejecting.
ResolvePairAddress(k, outcome) ==
  /\ subs[k].state = "resolving"
  /\ subs' = [subs EXCEPT ![k].state = IF outcome = "listening" THEN "listening" ELSE "none"]
  /\ UNCHANGED <<aggVars, clock, pipeVars, valVars, calcVars,
                 listeners, registeredBy, loops, unsubscribed, notifications, pool, cacheVars>>

\* The listening subscriptions, in order.
Listening == SelectSeq([k \in 1..Len(subs) |-> k], LAMBDA k : subs[k].state = "listening")

\* A swap: the pair emits Sync with its new reserves and the library calls
\* every listener, each of which awaits getPrice.
SyncEvent(reserve0, reserve1) ==
  /\ Len(notifications) + Len(Listening) <= MaxNotifications
  /\ pool' = [pool EXCEPT !.reserve0 = reserve0, !.reserve1 = reserve1]
  /\ notifications' = notifications \o
        [i \in 1..Len(Listening) |-> [sub |-> Listening[i], pc |-> "getPrice", late |-> FALSE]]
  /\ UNCHANGED <<aggVars, clock, pipeVars, valVars, calcVars,
                 listeners, registeredBy, loops, unsubscribed, subs, cacheVars>>

\* notifications without its entry n
Without(n) == [i \in 1..(Len(notifications) - 1) |->
                 IF i < n THEN notifications[i] ELSE notifications[i + 1]]

\* The getPrice of notification n settles: callback(price) is called, the
\* re-scan it starts being awaited by nobody, or the failure is logged.
NotificationGetPrice(n, ok) ==
  /\ notifications[n].pc = "getPrice"
  /\ notifications' = IF ok THEN [notifications EXCEPT ![n].pc = "rescan",
                                     ![n].late = subs[notifications[n].sub].released]
                      ELSE Without(n)
  /\ UNCHANGED <<aggVars, clock, pipeVars, valVars, calcVars,
                 listeners, registeredBy, loops, unsubscribed, subs, pool, cacheVars>>

\* The re-scan of notification n settles.
NotificationRescan(n) ==
  /\ notifications[n].pc = "rescan"
  /\ notifications' = Without(n)
  /\ UNCHANGED <<aggVars, clock, pipeVars, valVars, calcVars,
                 listeners, registeredBy, loops, unsubscribed, subs, pool, cacheVars>>

\* scanner.unsubscribe(): removeAllListeners() on every cached pair
\* contract.
ScannerUnsubscribe ==
  /\ subs # <<>>
  /\ subs' = [k \in 1..Len(subs) |->
               [state |-> IF subs[k].state = "listening" THEN "none" ELSE subs[k].state,
                released |-> TRUE]]
  /\ unsubscribed' = unsubscribed \cup {"Uniswap V2"}
  /\ UNCHANGED <<aggVars, clock, pipeVars, valVars, calcVars,
                 listeners, registeredBy, loops, notifications, pool, cacheVars>>

InitScanner ==
  /\ scanners = <<"Uniswap V2">>
  /\ monitoredPairs = SetAdd(<<>>, getPairKey(WETH, USDC))
  /\ ready = {"Uniswap V2"}
  /\ clock = 0
  /\ last = [op |-> "new"]
  /\ isMonitoring = FALSE
  /\ opportunityCallbacks = <<>>
  /\ loop = IdleLoop
  /\ handlers = <<>>
  /\ opportunitiesDetected = 0
  /\ opportunitiesExecuted = 0
  /\ opportunitiesSkipped = 0
  /\ config = NoConfig
  /\ vcfg = NoValidator
  /\ vopp = NoOpportunity
  /\ verdicts = <<>>
  /\ ethPriceUSD = EthPriceUSD
  /\ analyses = <<>>
  /\ listeners = {}
  /\ registeredBy = <<>>
  /\ loops = <<>>
  /\ unsubscribed = {}
  /\ subs = <<>>
  /\ notifications = <<>>
  /\ tokenDecimals = <<>>
  /\ priceCalls = <<>>
  /\ \E r0 \in PoolReserves, r1 \in PoolReserves, d \in PoolDecimals :
       pool = [reserve0 |-> r0, reserve1 |-> r1, decimals |-> d]

NextScanner ==
  \/ \E tokens \in {<<WETH, USDC>>, <<USDC, WETH>>} : ScannerGetPrice(tokens[1], tokens[2])
  \/ SubscribeToPriceUpdates
  \/ \E k \in 1..Len(subs), outcome \in {"listening", "zero", "rejected"} :
       ResolvePairAddress(k, outcome)
  \/ \E r0 \in PoolReserves, r1 \in PoolReserves : SyncEvent(r0, r1)
  \/ \E n \in 1..Len(notifications), ok \in BOOLEAN : NotificationGetPrice(n, ok)
  \/ \E n \in 1..Len(notifications) : NotificationRescan(n)
  \/ ScannerUnsubscribe

SpecScanner == InitScanner /\ [][NextScanner]_vars

(***************************************************************************)
(* Whole scan cycles with the clock running (SpecCycle): every scanner is  *)
(* ready, and the clock may advance by a millisecond between any two of    *)
(* the Date.now() reads of a detectOpportunities call.                     *)
(***************************************************************************)
MaxClockMs == 2

\* The answers tried in the scan of one pair: none, one, two or three
\* directions qualify.
CycleAnswers ==
  {[d \in SeqToSet(DexNames) |->
      CASE d = "Uniswap V2" -> 1000 * WeiPerEther
        [] d = "SushiSwap" -> sushi
        [] OTHER -> v3] :
     sushi \in {1000 * WeiPerEther, 1010 * WeiPerEther},
     v3 \in {1020 * WeiPerEther, GetPriceFails}}

\* The opportunity literal of createOpportunityIfProfitable with its two
\* clock reads: generateOpportunityId reads Date.now() for the id, the
\* timestamp property reads it again.
Stamp(o, idNow, tsNow) ==
  [o EXCEPT !.id = generateOpportunityId(o.tokenIn, o.tokenOut, o.buyDex, o.sellDex, idNow),
            !.timestamp = tsNow]

\* The k-th Date.now() read of a cycle that starts at the time now, the
\* clock advancing just before read number tickAt (never, if tickAt = 0).
ClockRead(now, tickAt, k) == IF tickAt # 0 /\ k >= tickAt THEN now + 1 ELSE now

\* One detectOpportunities call.
DetectOpportunities(resps, tickAt) ==
  LET opps == detectOpportunities(monitoredPairs, resps, clock)
  IN  /\ tickAt <= 2 * Len(opps)
      /\ tickAt # 0 => clock < MaxClockMs
      /\ last' = [op |-> "cycle", started |-> clock,
                  opps |-> [k \in 1..Len(opps) |->
                              Stamp(opps[k], ClockRead(clock, tickAt, 2 * k - 1),
                                    ClockRead(clock, tickAt, 2 * k))]]
      /\ clock' = IF tickAt # 0 THEN clock + 1 ELSE clock
      /\ UNCHANGED <<scanners, monitoredPairs, ready, pipeVars, valVars, calcVars, subVars>>

DAI == <<"e", "0">>

\* main has added one pair or two before the first cycle.
InitCycle ==
  /\ scanners = DexNames
  /\ monitoredPairs \in {SetAdd(<<>>, getPairKey(WETH, USDC)),
                         SetAdd(SetAdd(<<>>, getPairKey(WETH, USDC)), getPairKey(WETH, DAI))}
  /\ ready = SeqToSet(DexNames)
  /\ clock = 0
  /\ last = [op |-> "new"]
  /\ isMonitoring = FALSE
  /\ opportunityCallbacks = <<>>
  /\ loop = IdleLoop
  /\ handlers = <<>>
  /\ opportunitiesDetected = 0
  /\ opportunitiesExecuted = 0
  /\ opportunitiesSkipped = 0
  /\ config = NoConfig
  /\ vcfg = NoValidator
  /\ vopp = NoOpportunity
  /\ verdicts = <<>>
  /\ ethPriceUSD = EthPriceUSD
  /\ analyses = <<>>
  /\ NoSubscriptions

NextCycle ==
  \E resps \in [1..Len(monitoredPairs) -> CycleAnswers], tickAt \in 0..12 :
    DetectOpportunities(resps, tickAt)

SpecCycle == InitCycle /\ [][NextCycle]_vars

(***************************************************************************)
(* The whole API of the aggregator called in any order, the monitored      *)
(* pairs added and removed while loops and listeners run (SpecFrame).      *)
(***************************************************************************)
\* The quotes tried: nothing or 1000 tokens on the first venue, 1010 tokens
\* on the second.
FramePrices ==
  [d \in SeqToSet(DexNames) |->
     IF d = "Uniswap V2" THEN {0, 1000 * WeiPerEther} ELSE {1010 * WeiPerEther}]

\* The answers of a scan: the first venue quotes or fails, the second quotes.
FrameAnswers == {resp \in ScanAnswers(FramePrices) : resp["SushiSwap"] # GetPriceFails}

FramePairs == {<<USDC, WETH>>, <<WETH, DAI>>}
FramePairList == <<[tokenA |-> WETH, tokenB |-> DAI], [tokenA |-> WETH, tokenB |-> USDC]>>

\* aggregator.getMonitoredPairs()
GetMonitoredPairs ==
  /\ last' = [op |-> "getMonitoredPairs", result |-> getMonitoredPairs]
  /\ UNCHANGED <<scanners, monitoredPairs, ready, clock, pipeVars, valVars, calcVars, subVars>>

\* aggregator.getStats()
GetStats ==
  /\ last' = [op |-> "getStats", scannerCount |-> Len(scanners),
              monitoredPairCount |-> Len(monitoredPairs), isMonitoring |-> isMonitoring,
              callbackCount |-> Len(opportunityCallbacks)]
  /\ UNCHANGED <<scanners, monitoredPairs, ready, clock, pipeVars, valVars, calcVars, subVars>>

\* The calls that read the pairs and the registry.  The client starts one
\* loop, calls monitorContinuously again only while that loop is monitoring,
\* and subscribes its throwing callback while no listener is registered.
FrameReads ==
  \/ \E i \in 1..Len(monitoredPairs), resp \in FrameAnswers :
       DetectOpportunitiesForPair(i, resp)
  \/ (isMonitoring \/ loops = <<>>) /\ CallMonitorContinuously("returns")
  \/ \E k \in 1..Len(loops) :
       \E resps \in [1..Len(monitoredPairs) -> FrameAnswers] : LoopCycle(k, resps)
  \/ \E k \in 1..Len(loops) : LoopWake(k)
  \/ listeners = {} /\ SubscribeToUpdates("throws")
  \/ \E l \in listeners, resp \in FrameAnswers : PriceUpdate(l, resp)
  \/ StopMonitoring
  \/ Unsubscribe
  \/ GetMonitoredPairs
  \/ GetStats

\* addPair, addPairs and removePair
FrameWrites ==
  \/ \E p \in FramePairs : AddPair(p[1], p[2])
  \/ AddPairs(FramePairList)
  \/ \E p \in FramePairs : RemovePair(p[1], p[2])

NextFrame == FrameReads \/ FrameWrites

SpecFrame == InitClient /\ [][NextFrame]_vars

(***************************************************************************)
(* The decimals cache of that scanner under getPrice calls that overlap    *)
(* (SpecDecimals).  Every await of getPrice is a step; getPairAddress and  *)
(* getReserves, which do not touch the cache, settle in the step that      *)
(* makes the call.                                                         *)
(***************************************************************************)
MaxPriceCalls == 2

\* this.tokenDecimals.has(token), .get(token), .set(token, decimals)
MapHas(map, key) == key \in DOMAIN map
MapGet(map, key) == map[key]
MapSet(map, key, value) == [k \in DOMAIN map \cup {key} |-> IF k = key THEN value ELSE map[k]]

DefaultDecimals == 18

\* priceCalls without its entry n
WithoutCall(n) == [i \in 1..(Len(priceCalls) - 1) |->
                    IF i < n THEN priceCalls[i] ELSE priceCalls[i + 1]]

\* scanner.getPrice(tokenA, tokenB) is called and its getPairAddress and
\* getReserves settle: with the reserves, with the zero address, or by
\* rejecting; in the last two cases getPrice throws.
GetPriceCall(tokenA, tokenB, answer) ==
  /\ Len(priceCalls) < MaxPriceCalls
  /\ IF answer = "reserves"
     THEN /\ priceCalls' = Append(priceCalls,
                 [tokenA |-> tokenA, tokenB |-> tokenB, pc |-> "decimalsA",
                  decimalsA |-> 0, decimalsB |-> 0, failed |-> {}])
          /\ UNCHANGED last
     ELSE /\ last' = [op |-> "priceCall", tokenA |-> tokenA, tokenB |-> tokenB,
                      threw |-> TRUE, cause |-> answer, failed |-> {}]
          /\ UNCHANGED priceCalls
  /\ UNCHANGED <<scanners, monitoredPairs, ready, clock, pipeVars, valVars, calcVars,
                 listeners, registeredBy, loops, unsubscribed, subs, notifications, pool,
                 tokenDecimals>>

\* The token whose decimals call n is resolving.
TokenOf(c) == IF c.pc \in {"decimalsA", "lookupA"} THEN c.tokenA ELSE c.tokenB

\* Call n holds the decimals d for the token it was resolving and goes on
\* to the next await of getPrice.
Resolved(c, d, failed) ==
  IF c.pc \in {"decimalsA", "lookupA"}
  THEN [c EXCEPT !.pc = "decimalsB", !.decimalsA = d,
                 !.failed = IF failed THEN @ \cup {c.tokenA} ELSE @]
  ELSE [c EXCEPT !.pc = "blockNumber", !.decimalsB = d,
                 !.failed = IF failed THEN @ \cup {c.tokenB} ELSE @]

\* Mutant of DecimalsSettle: a failed lookup is raised to getPrice.
DecimalsSettleRaises(n, ok) ==
  /\ priceCalls[n].pc \in {"lookupA", "lookupB"}
  /\ LET c == priceCalls[n]
         token == TokenOf(c)
     IN  IF ok
         THEN /\ tokenDecimals' = MapSet(tokenDecimals, token, pool.decimals[token])
              /\ priceCalls' = [priceCalls EXCEPT ![n] = Resolved(c, pool.decimals[token], FALSE)]
              /\ UNCHANGED last
         ELSE /\ last' = [op |-> "priceCall", tokenA |-> c.tokenA, tokenB |-> c.tokenB,
                          threw |-> TRUE, cause |-> "decimals", failed |-> c.failed \cup {token}]
              /\ priceCalls' = WithoutCall(n)
              /\ UNCHANGED tokenDecimals
  /\ UNCHANGED <<scanners, monitoredPairs, ready, clock, pipeVars, valVars, calcVars,
                 listeners, registeredBy, loops, unsubscribed, subs, notifications, pool>>

\* Call n enters getTokenDecimals for its next token: a cached value is
\* returned, otherwise tokenContract.decimals() is awaited.
GetTokenDecimals(n) ==
  /\ priceCalls[n].pc \in {"decimalsA", "decimalsB"}
  /\ LET c == priceCalls[n]
         token == TokenOf(c)
     IN  priceCalls' = [priceCalls EXCEPT ![n] =
           IF MapHas(tokenDecimals, token)
           THEN Resolved(c, MapGet(tokenDecimals, token), FALSE)
           ELSE [c EXCEPT !.pc = IF c.pc = "decimalsA" THEN "lookupA" ELSE "lookupB"]]
  /\ UNCHANGED <<scanners, monitoredPairs, ready, clock, last, pipeVars, valVars, calcVars,
                 listeners, registeredBy, loops, unsubscribed, subs, notifications, pool,
                 tokenDecimals>>

\* The tokenContract.decimals() of call n settles: the answer, or 18 in
\* the catch block, is stored in the cache and read back from it.
DecimalsSettle(n, ok) ==
  /\ priceCalls[n].pc \in {"lookupA", "lookupB"}
  /\ LET c == priceCalls[n]
         token == TokenOf(c)
         cache == MapSet(tokenDecimals, token,
                         IF ok THEN pool.decimals[token] ELSE DefaultDecimals)
     IN  /\ tokenDecimals' = cache
         /\ priceCalls' = [priceCalls EXCEPT ![n] = Resolved(c, MapGet(cache, token), ~ok)]
  /\ UNCHANGED <<scanners, monitoredPairs, ready, clock, last, pipeVars, valVars, calcVars,
                 listeners, registeredBy, loops, unsubscribed, subs, notifications, pool>>

\* The provider.getBlockNumber() of call n settles and getPrice returns
\* the quote computed from the decimals it resolved, or throws.
GetBlockNumber(n, ok) ==
  /\ priceCalls[n].pc = "blockNumber"
  /\ LET c == priceCalls[n]
         used == [t \in {c.tokenA, c.tokenB} |-> IF t = c.tokenA THEN c.decimalsA ELSE c.decimalsB]
     IN  last' = IF ok
                 THEN [op |-> "priceCall", tokenA |-> c.tokenA, tokenB |-> c.tokenB,
                       threw |-> FALSE, failed |-> c.failed, decimals |-> used,
                       quote |-> getPrice([pool EXCEPT !.decimals = used], c.tokenA, c.tokenB)]
                 ELSE [op |-> "priceCall", tokenA |-> c.tokenA, tokenB |-> c.tokenB,
                       threw |-> TRUE, cause |-> "blockNumber", failed |-> c.failed]
  /\ priceCalls' = WithoutCall(n)
  /\ UNCHANGED <<scanners, monitoredPairs, ready, clock, pipeVars, valVars, calcVars,
                 listeners, registeredBy, loops, unsubscribed, subs, notifications, pool,
                 tokenDecimals>>

NextDecimals ==
  \/ \E tokens \in {<<WETH, USDC>>, <<USDC, WETH>>}, answer \in {"reserves", "noPair", "rejected"} :
       GetPriceCall(tokens[1], tokens[2], answer)
  \/ \E n \in 1..Len(priceCalls) : GetTokenDecimals(n)
  \/ \E n \in 1..Len(priceCalls), ok \in BOOLEAN : DecimalsSettle(n, ok)
  \/ \E n \in 1..Len(priceCalls), ok \in BOOLEAN : GetBlockNumber(n, ok)

\* The scanner of InitScanner on a pool of 2000 USDC and 1000 WETH.
InitDecimals ==
  /\ InitScanner
  /\ pool.reserve0 = 2000
  /\ pool.reserve1 = 1000

SpecDecimals == InitDecimals /\ [][NextDecimals]_vars

(***************************************************************************)
(* Properties of the opportunity handler (checked under Spec).             *)
(***************************************************************************)
\* C1: a handler calls executeAaveArbitrage only in live mode, in the step
\* in which its pending simulateExecution call, made for the opportunity's
\* token and venues and the recommended amount, answers success, and it
\* commits that opportunity with that amount; a simulation that answers
\* failure ends the handler without a commit, counts one skip and leaves
\* the monitoring flag and the polling loop as they were; and a handler
\* that has ended calls nothing more.
C1_CommitOnlyAfterSimulation ==
  [][\A i \in 1..Len(handlers) :
       LET h == handlers[i]
           g == handlers'[i]
       IN  /\ (h.exec = "none" /\ g.exec # "none") =>
                /\ ~config.dryRun
                /\ h.sim = "pending" /\ g.sim = "ok"
                /\ h.simArgs = [provider |-> "aave", token |-> h.opp.tokenIn,
                                amount |-> h.analysis.recommendedAmount,
                                buyDex |-> h.opp.buyDex, sellDex |-> h.opp.sellDex]
                /\ g.execArgs = [opportunity |-> h.opp, amount |-> h.simArgs.amount]
           /\ (h.sim = "pending" /\ g.sim = "fail") =>
                /\ g.exec = "none" /\ g.pc = "done"
                /\ opportunitiesSkipped' = opportunitiesSkipped + 1
                /\ opportunitiesExecuted' = opportunitiesExecuted
                /\ isMonitoring' = isMonitoring /\ loop' = loop
           /\ h.pc = "done" => g = h]_vars

\* One handler has committed after a successful simulation, another has
\* ended on a failed simulation, and the loop is still polling.
C1_Witness ==
  /\ \E i \in 1..Len(handlers) : handlers[i].sim = "ok" /\ handlers[i].exec # "none"
  /\ \E i \in 1..Len(handlers) :
       handlers[i].sim = "fail" /\ handlers[i].pc = "done" /\ handlers[i].exec = "none"
  /\ isMonitoring /\ loop.pc \in {"detect", "sleep"}
  /\ opportunitiesSkipped >= 1

\* C2: a handler has passed its opportunity to calculateProfit only if
\* validate returned isValid for it, and has called simulateExecution or
\* executeAaveArbitrage only if, besides, calculateProfit returned
\* isExecutable for it.
C2_ScreenedBeforeDispatch ==
  \A i \in 1..Len(handlers) :
    LET h == handlers[i]
    IN  /\ h.scored => h.validation.isValid
        /\ (h.sim # "none" \/ h.exec # "none") =>
             h.validation.isValid /\ h.scored /\ h.analysis.isExecutable
        /\ h.exec # "none" => h.sim = "ok"

\* One opportunity was rejected by the validator and another was committed.
C2_Witness ==
  /\ \E i \in 1..Len(handlers) : ~handlers[i].validation.isValid /\ ~handlers[i].scored
  /\ \E i \in 1..Len(handlers) :
       handlers[i].scored /\ handlers[i].analysis.isExecutable /\ handlers[i].exec # "none"

\* The handlers' opportunities i and j have the same pair and venues.
SameTrade(i, j) ==
  /\ handlers[i].opp.tokenIn = handlers[j].opp.tokenIn
  /\ handlers[i].opp.tokenOut = handlers[j].opp.tokenOut
  /\ handlers[i].opp.buyDex = handlers[j].opp.buyDex
  /\ handlers[i].opp.sellDex = handlers[j].opp.sellDex

\* C26: nothing in the pipeline excludes two handlers of the same pair and
\* venues from each other: every opportunity a polling cycle delivers
\* starts a handler of its own, which goes on to its analysis whenever the
\* validator accepts the opportunity, whatever the handlers in flight.
C26_NoMutualExclusion ==
  [][(loop.pc = "detect" /\ loop'.pc = "sleep") =>
       /\ Len(handlers') = Len(handlers) + Len(loop'.opps) * Len(opportunityCallbacks)
       /\ \A i \in (Len(handlers) + 1)..Len(handlers') :
            /\ handlers'[i].validation = validate(vcfg.validator, handlers'[i].opp, clock)
            /\ handlers'[i].validation.isValid => handlers'[i].pc = "profit"]_vars

\* Two handlers of the same pair and venues, started by two successive
\* polling cycles, are both waiting for their commit to answer.
C26_Witness ==
  \E i \in 1..Len(handlers), j \in 1..Len(handlers) :
    /\ i < j
    /\ SameTrade(i, j)
    /\ handlers[i].pc = "executing" /\ handlers[j].pc = "executing"
    /\ handlers[i].exec = "pending" /\ handlers[j].exec = "pending"

\* The handlers that have ended.
Ended == {i \in 1..Len(handlers) : handlers[i].pc = "done"}

\* C28: in dry-run mode no handler calls simulateExecution or
\* executeAaveArbitrage and nothing is counted as executed; every handler
\* whose analysis is executable ends as a dry run, and every handler that
\* has ended is counted as skipped.
C28_DryRunNeverCommits ==
  config.dryRun =>
    /\ \A i \in 1..Len(handlers) :
         /\ handlers[i].exec = "none" /\ handlers[i].execArgs = NoCall
         /\ handlers[i].sim = "none" /\ handlers[i].simArgs = NoCall
         /\ (handlers[i].scored /\ handlers[i].analysis.isExecutable) =>
              (handlers[i].pc = "done" /\ handlers[i].outcome = "dryRun")
    /\ opportunitiesExecuted = 0
    /\ opportunitiesSkipped = Cardinality(Ended)

\* In dry-run mode two executable opportunities have been handled and
\* skipped.
C28_Witness ==
  /\ config.dryRun
  /\ Len(handlers) = 2
  /\ \A i \in 1..Len(handlers) :
       handlers[i].analysis.isExecutable /\ handlers[i].outcome = "dryRun"
  /\ opportunitiesSkipped = 2

\* C33 as stated: every opportunity handed to handleOpportunity is counted
\* as detected once and, when its handling has ended, as exactly one of
\* executed and skipped; with no handler in flight
\* opportunitiesDetected = opportunitiesExecuted + opportunitiesSkipped.
C33_AccountingPartition ==
  /\ opportunitiesDetected = Len(handlers)
  /\ opportunitiesExecuted + opportunitiesSkipped >= Cardinality(Ended)
  /\ (Cardinality(Ended) = Len(handlers)) =>
       opportunitiesDetected = opportunitiesExecuted + opportunitiesSkipped

\* C21: once a stop signal has stopped the monitoring, unsubscribe() has
\* been called on every scanner of the registry and no opportunity callback
\* is left.
C21_ShutdownUnsubscribes ==
  (loop.pc # "none" /\ ~isMonitoring) =>
    /\ loop.pc = "exited"
    /\ unsubscribed = SeqToSet(scanners)
    /\ opportunityCallbacks = <<>>

\* The stop signal arrived during a sleep of the loop, after a cycle that
\* started a handler.
C21_Witness ==
  /\ loop.pc = "exited"
  /\ ~isMonitoring
  /\ last.op = "poll"
  /\ Len(handlers) >= 1
  /\ unsubscribed = {"Uniswap V2", "SushiSwap"}

\* C17: the polling loop leaves a scan cycle only for its sleep and leaves
\* its sleep only for the next scan cycle, whatever failed in the cycle or
\* in the handlers it started, and it never stays in a cycle or in a sleep
\* for ever; only the shutdown of the process ends it.
C17_LoopSurvivesFailures ==
  /\ [][loop.pc = "detect" => loop'.pc \in {"detect", "sleep", "exited"}]_vars
  /\ [][loop.pc = "sleep" => loop'.pc \in {"sleep", "detect", "exited"}]_vars
  /\ []<>(loop.pc # "detect")
  /\ []<>(loop.pc # "sleep")

\* The next cycle has started after a cycle in which the scan of the pair
\* threw, while one handler has ended in an error and another in a
\* rejection.
C17_Witness ==
  /\ loop.pc = "detect"
  /\ isMonitoring
  /\ last.op = "poll"
  /\ last.scanThrew
  /\ \E i \in 1..Len(handlers) : handlers[i].outcome = "error"
  /\ \E i \in 1..Len(handlers) : handlers[i].outcome = "rejected"

(***************************************************************************)
(* Properties of the validator (checked under SpecValidator).              *)
(***************************************************************************)
\* The results of the six stages for the opportunity under test, with the
\* clock at now.
StageResults(now) ==
  <<validateTokens(vcfg.validator, vopp), validateDexes(vcfg.validator, vopp),
    validatePrices(vcfg.validator, vopp), validateLiquidity(vcfg.validator, vopp),
    validateProfitPotential(vcfg.validator, vopp), validateFreshness(vcfg.validator, vopp, now)>>
FailingStages(st) == {k \in 1..6 : ~st[k].isValid}
EarliestFailing(st) == CHOOSE k \in FailingStages(st) : \A m \in FailingStages(st) : k <= m
AllWarnings(st) ==
  st[1].warnings \o st[2].warnings \o st[3].warnings \o st[4].warnings \o st[5].warnings \o st[6].warnings
HasText(msgs, text) == \E i \in 1..Len(msgs) : msgs[i].text = text
\* The most recent call of validate; every call is the most recent one in
\* the state it leaves.
LastVerdict == verdicts[Len(verdicts)]

\* C7: the verdict of every call of validate is, when some stage rejects, the
\* rejection of the earliest rejecting stage in the order tokens, venues,
\* prices, liquidity, profit potential, freshness, with its one reason and
\* no warnings; and, when no stage rejects, an acceptance without a reason
\* that carries the warnings of all six stages in that order.
C7_FailFastInOrder ==
  verdicts # <<>> =>
    LET st == StageResults(LastVerdict.at)
        failing == FailingStages(st)
        r == LastVerdict.verdict
    IN  IF failing # {}
        THEN /\ ~r.isValid
             /\ r.reason = st[EarliestFailing(st)].reason
             /\ r.reason # NoReason
             /\ r.warnings = <<>>
        ELSE /\ r.isValid
             /\ r.reason = NoReason
             /\ r.warnings = AllWarnings(st)

\* A call in which two or more stages would reject, the first stage not
\* among them.
C7_Witness ==
  \E i \in 1..Len(verdicts) :
    LET st == StageResults(verdicts[i].at)
    IN  /\ Cardinality(FailingStages(st)) >= 2
        /\ EarliestFailing(st) > 1

C9_Freshness ==
  verdicts # <<>> =>
    LET ageMs == LastVerdict.at - vopp.timestamp
        st == StageResults(LastVerdict.at)
        f == st[6]
        r == LastVerdict.verdict
    IN  /\ ageMs > 60000 => ~f.isValid /\ f.reason.text = "Opportunity is stale"
        /\ ageMs <= 60000 => /\ f.isValid
                             /\ HasText(f.warnings, "Opportunity aging") <=> ageMs > 30000
        /\ (\A k \in 1..5 : st[k].isValid) =>
             /\ r.isValid <=> ageMs <= 60000
             /\ ~r.isValid => r.reason.text = "Opportunity is stale"
             /\ r.isValid => (HasText(r.warnings, "Opportunity aging") <=> ageMs > 30000)

\* An opportunity of exactly 60 s, accepted with the aging warning.
C9_Witness ==
  \E i \in 1..Len(verdicts) :
    /\ verdicts[i].at - vopp.timestamp = 60000
    /\ verdicts[i].verdict.isValid
    /\ HasText(verdicts[i].verdict.warnings, "Opportunity aging")

\* C10: with a floor configured at construction, an opportunity of positive
\* liquidity that the first three stages accept is rejected for insufficient
\* liquidity exactly when its liquidity is worth less than the configured
\* floor, and otherwise passes the liquidity stage, with the low-liquidity
\* warning exactly when it is worth less than 1.5 times the configured floor.
C10_ConfiguredFloor ==
  verdicts # <<>> =>
    LET floor == vcfg.options.minLiquidityUSD.value
        st == StageResults(LastVerdict.at)
        r == st[4]
    IN  ( /\ vcfg.options.minLiquidityUSD.present
          /\ vopp.availableLiquidity > 0
          /\ \A k \in 1..3 : st[k].isValid )
        => /\ r.isValid <=> ~BelowUSD(vopp.availableLiquidity, floor, 1)
           /\ ~r.isValid => /\ LastVerdict.verdict = r
                            /\ r.reason.text = "Insufficient liquidity"
           /\ r.isValid => (HasText(r.warnings, "Low liquidity")
                              <=> BelowUSD(vopp.availableLiquidity, 3 * floor, 2))

\* C11: the profit-potential stage accepts an opportunity without an
\* estimated profit, with the one warning that validation is limited; with
\* an estimate it rejects exactly when the estimate is not positive or is
\* worth less than the configured minimum profit, and an accepted estimate
\* carries the marginal-profit warning exactly when it is worth less than
\* 1.2 times that minimum. When the five other stages accept, the verdict
\* of validate is the stage's: its rejection, or an acceptance with its
\* warnings.
C11_ProfitPotential ==
  verdicts # <<>> =>
    LET st == StageResults(LastVerdict.at)
        r == st[5]
        e == vopp.estimatedProfit
        others == \A k \in {1, 2, 3, 4, 6} : st[k].isValid
        tooLittle == e.value <= 0 \/ e.value * 1 < vcfg.minProfitUSD * UnitsPerUSD
        marginal == e.value * 5 < 6 * vcfg.minProfitUSD * UnitsPerUSD
    IN  /\ ~e.present =>
             /\ r.isValid
             /\ Len(r.warnings) = 1
             /\ HasText(r.warnings, "No estimated profit provided - validation limited")
        /\ e.present =>
             /\ ~r.isValid <=> tooLittle
             /\ r.isValid => (HasText(r.warnings, "Marginal profit") <=> marginal)
             /\ ~HasText(r.warnings, "No estimated profit provided - validation limited")
        /\ others =>
             /\ LastVerdict.verdict.isValid <=> r.isValid
             /\ ~r.isValid => LastVerdict.verdict.reason = r.reason
             /\ r.isValid =>
                  \A i \in 1..Len(r.warnings) :
                    HasText(LastVerdict.verdict.warnings, r.warnings[i].text)

\* A call that was accepted with a marginal-profit warning for an estimate
\* worth exactly the minimum, under a minimum that rejects a $60 estimate
\* in another run.
C11_Witness ==
  /\ verdicts # <<>>
  /\ vopp.estimatedProfit.present
  /\ vopp.estimatedProfit.value = vcfg.minProfitUSD * UnitsPerUSD
  /\ LastVerdict.verdict.isValid
  /\ HasText(LastVerdict.verdict.warnings, "Marginal profit")

(***************************************************************************)
(* Properties of the profit calculator (checked under SpecCalc).           *)
(***************************************************************************)
\* The most recent call of calculateProfit; every call is the most recent
\* one in the state it leaves.
LastAnalysis == analyses[Len(analyses)]

\* C12: every analysis calculateProfit returns has isExecutable true
\* exactly when its net profit is positive, is worth at least minProfitUSD
\* at the ETH price the call read, its profit percentage is at least
\* minProfitPercentage, and both its price impacts are at most maxSlippage
\* (basis points, that is hundredths of a percent).
C12_ExecutableIffAllFour ==
  (analyses # <<>> /\ LastAnalysis.result.kind = "ok") =>
    LET a == LastAnalysis.result.analysis
    IN  a.isExecutable <=>
          /\ a.netProfit > 0
          /\ MulDiv(a.netProfit, LastAnalysis.ethPriceUSD, WeiPerEther) >= config.minProfitUSD
          /\ a.profitPercentage >= config.minProfitPercentage
          /\ a.priceImpact.buy <= config.maxSlippage
          /\ a.priceImpact.sell <= config.maxSlippage

\* An analysis in which the percentage alone fails: a positive net profit
\* worth the minimum, impacts within the slippage limit, not executable.
C12_Witness ==
  /\ analyses # <<>>
  /\ LastAnalysis.result.kind = "ok"
  /\ LET a == LastAnalysis.result.analysis
     IN  /\ ~a.isExecutable
         /\ a.netProfit > 0
         /\ MulDiv(a.netProfit, LastAnalysis.ethPriceUSD, WeiPerEther) >= config.minProfitUSD
         /\ a.profitPercentage < config.minProfitPercentage
         /\ a.priceImpact.buy <= config.maxSlippage
         /\ a.priceImpact.sell <= config.maxSlippage

\* C29: every analysis has a buy impact and a sell impact of exactly 1.00
\* percent, whatever the amount and the prices, and is executable only
\* under a slippage limit of 100 basis points or more.
C29_ImpactIsOnePercent ==
  \A k \in 1..Len(analyses) :
    analyses[k].result.kind = "ok" =>
      LET a == analyses[k].result.analysis
      IN  /\ a.recommendedAmount > 0
          /\ a.priceImpact.buy = 100
          /\ a.priceImpact.sell = 100
          /\ a.isExecutable => config.maxSlippage >= 100

\* An executable analysis of 10 ether, the largest trade allowed, between
\* quotes of 1000 and 1010 tokens under a slippage limit of 100 basis points.
C29_Witness ==
  /\ analyses # <<>>
  /\ LastAnalysis.result.kind = "ok"
  /\ LastAnalysis.result.analysis.isExecutable
  /\ LastAnalysis.result.analysis.recommendedAmount = parseEther(100)
  /\ vopp.buyPrice = 1000 * WeiPerEther
  /\ config.maxSlippage = 100

\* C13 as stated: the opportunity between quotes of 1000 and 1010 tokens
\* with liquidity worth $50,000, analysed under the configured defaults
\* (fees of 30 + 30 and 9 basis points, a gas ceiling of 100 gwei, minimums
\* of $50 and 0.5%, a slippage limit of 50 basis points), is synthesized by
\* the aggregator, accepted by the validator and found executable by
\* calculateProfit.
C13_EndToEndExecutable ==
  ( /\ analyses # <<>>
    /\ LastAnalysis.ethPriceUSD = EthPriceUSD
    /\ config = NetworkConfig(FALSE, 50)
    /\ vopp.buyPrice = 1000 * WeiPerEther
    /\ vopp.sellPrice = 1010 * WeiPerEther
    /\ vopp.availableLiquidity = 25 * WeiPerEther )
  => LET synthesized ==
           createOpportunityIfProfitable(WETH, USDC, "Uniswap V2", "SushiSwap",
                                         Quote("Uniswap V2", vopp.buyPrice),
                                         Quote("SushiSwap", vopp.sellPrice), 0)
         r == LastAnalysis.result
     IN  /\ synthesized.kind = "opp"
         /\ vopp = [synthesized.opp EXCEPT !.availableLiquidity = vopp.availableLiquidity]
         /\ validate(vcfg.validator, vopp, clock).isValid
         /\ r.kind = "ok"
         /\ r.analysis.isExecutable

C15_IdenticalAnalyses ==
  \A i, j \in 1..Len(analyses) : analyses[i].result = analyses[j].result

\* C15, amended: two calls of calculateProfit on the same opportunity
\* return analyses that agree in every field but isExecutable, and that
\* agree in isExecutable too when updateEthPrice has not changed the
\* calculator's ETH price between them.
C15_IdenticalUpToEthPrice ==
  \A i, j \in 1..Len(analyses) :
    /\ analyses[i].result.kind = analyses[j].result.kind
    /\ [analyses[i].result.analysis EXCEPT !.isExecutable = FALSE]
         = [analyses[j].result.analysis EXCEPT !.isExecutable = FALSE]
    /\ analyses[i].ethPriceUSD = analyses[j].ethPriceUSD
         => analyses[i].result = analyses[j].result

\* Two calls on the same opportunity, the ETH price updated between them,
\* the first analysis executable and the second not.
C15_Witness ==
  /\ Len(analyses) = 2
  /\ analyses[1].ethPriceUSD # analyses[2].ethPriceUSD
  /\ analyses[1].result.analysis.isExecutable
  /\ ~analyses[2].result.analysis.isExecutable

(***************************************************************************)
(* Properties of the monitoring API (checked under SpecMonitor).           *)
(***************************************************************************)
\* C16: in a cycle of the polling loop and in a price-update event alike,
\* every registered callback is called once for every opportunity found,
\* opportunity by opportunity and callback by callback in registration
\* order, whichever of the calls throw.
C16_FanOutIsolatesFailures ==
  last.op \in {"poll", "event"} =>
    LET n == Len(last.callbacks)
    IN  /\ Len(last.calls) = Len(last.opps) * n
        /\ \A i \in 1..Len(last.opps), j \in 1..n :
             /\ last.calls[(i - 1) * n + j].opportunity = last.opps[i]
             /\ last.calls[(i - 1) * n + j].callback = last.callbacks[j]

\* A price-update event that found two or more opportunities while the
\* throwing callback was registered ahead of the returning one.
C16_Witness ==
  /\ last.op = "event"
  /\ Len(last.opps) >= 2
  /\ last.callbacks = <<"throws", "returns">>
  /\ last.calls[1].threw
  /\ last.calls[Len(last.calls)].callback = "returns"

\* C20: once stopMonitoring has been called, the loop starts no new scan
\* cycle; a cycle in progress ends with the fan-out of its opportunities to
\* the registered callbacks and the sleep; and monitorContinuously
\* eventually returns.
C20_StopEndsLoop ==
  /\ [][(~isMonitoring /\ loop.pc = "sleep") => loop'.pc \in {"sleep", "returned"}]_vars
  /\ [][(~isMonitoring /\ loop.pc = "detect" /\ loop'.pc # "detect")
          => /\ loop'.pc = "sleep"
             /\ last'.op = "poll"
             /\ Len(last'.calls) = Len(last'.opps) * Len(opportunityCallbacks)]_vars
  /\ (~isMonitoring /\ loop.pc \in {"detect", "sleep"}) ~> (loop.pc = "returned")

\* monitorContinuously has returned after a stop, the last cycle's two or
\* more opportunities delivered.
C20_Witness ==
  /\ ~isMonitoring
  /\ loop.pc = "returned"
  /\ last.op = "poll"
  /\ Len(last.opps) >= 2
  /\ Len(last.calls) >= 2

(***************************************************************************)
(* Properties of the monitoring API under any order of calls (checked      *)
(* under SpecClient).                                                      *)
(***************************************************************************)
\* The loops that have not returned.
ActiveLoops == {k \in 1..Len(loops) : loops[k] # "returned"}

\* C22 as stated: at most one polling loop is active at any time, so no two
\* loops are in a scan cycle together.
C22_SingleLoop ==
  /\ Cardinality(ActiveLoops) <= 1
  /\ Cardinality({k \in 1..Len(loops) : loops[k] = "detect"}) <= 1

\* The calls of the last fan-out that passed opportunity i to callback cb.
CallsOf(i, cb) ==
  {k \in 1..Len(last.calls) :
     last.calls[k].opportunity = last.opps[i] /\ last.calls[k].callback = cb}

\* C25: a callback pushed by monitorContinuously is called for every
\* opportunity of a price-update event, and a callback pushed by
\* subscribeToUpdates is called for every opportunity of a polling cycle:
\* both fan-outs run over the one list.
C25_SharedCallbacks ==
  /\ Len(registeredBy) = Len(opportunityCallbacks)
  /\ last.op \in {"poll", "event"} =>
       /\ Len(last.by) = Len(last.callbacks)
       /\ \A j \in 1..Len(last.by), i \in 1..Len(last.opps) :
            (last.by[j] = (IF last.op = "event" THEN "monitorContinuously"
                           ELSE "subscribeToUpdates"))
              => /\ CallsOf(i, last.callbacks[j]) # {}
                 /\ last.calls[(i - 1) * Len(last.by) + j].callback = last.callbacks[j]
                 /\ last.calls[(i - 1) * Len(last.by) + j].opportunity = last.opps[i]

\* A price-update event delivered its opportunities to the callback that
\* monitorContinuously had pushed and to the one subscribeToUpdates pushed.
C25_Witness ==
  /\ last.op = "event"
  /\ last.by = <<"monitorContinuously", "subscribeToUpdates">>
  /\ last.callbacks = <<"returns", "throws">>
  /\ Len(last.opps) >= 1
  /\ Len(last.calls) = 2 * Len(last.opps)

\* C30 as stated: when every callback was pushed by monitorContinuously,
\* the list holds no callback twice, and every opportunity of a polling
\* cycle is passed to each callback of the list exactly once.
C30_DeliveredOnce ==
  /\ (\A j \in 1..Len(registeredBy) : registeredBy[j] = "monitorContinuously") =>
       \A i \in 1..Len(opportunityCallbacks), j \in 1..Len(opportunityCallbacks) :
         i # j => opportunityCallbacks[i] # opportunityCallbacks[j]
  /\ (last.op = "poll" /\ \A j \in 1..Len(last.by) : last.by[j] = "monitorContinuously") =>
       \A i \in 1..Len(last.opps), j \in 1..Len(last.callbacks) :
         Cardinality(CallsOf(i, last.callbacks[j])) = 1

ScaledReserve(p, token) ==
  (IF ToLowerCase(token) = ToLowerCase(sortTokens(WETH, USDC).token0)
   THEN p.reserve0 ELSE p.reserve1) * Pow10(18 - p.decimals[token])

\* C27 as stated: the price getPrice(tokenA, tokenB) returns is the scaled
\* reserve of tokenB times 10^18 over the scaled reserve of tokenA, its
\* inverse price is the scaled reserve of tokenA times 10^18 over the
\* scaled reserve of tokenB, whichever of the two is the pair's token0, and
\* the price equals the inverse price of getPrice(tokenB, tokenA).
C27_PriceOfBInA ==
  last.op = "getPrice" =>
    LET q == last.quote
    IN  /\ q.price = MulDiv(ScaledReserve(last.pool, q.tokenB), WeiPerEther,
                            ScaledReserve(last.pool, q.tokenA))
        /\ q.inversePrice = MulDiv(ScaledReserve(last.pool, q.tokenA), WeiPerEther,
                                   ScaledReserve(last.pool, q.tokenB))
        /\ q.price = getPrice(last.pool, q.tokenB, q.tokenA).inversePrice

(***************************************************************************)
(* Properties of the profit calculator under configured fees (checked      *)
(* under SpecFees).                                                        *)
(***************************************************************************)
\* The analyses calculateProfit has returned.
Analyses == {analyses[k].result.analysis : k \in 1..Len(analyses)}

\* C35 as stated: net profit is gross profit less the flash-loan fee, the
\* venue fees and the gas cost, gross profit is (sellPrice - buyPrice) x
\* amount / 10^18, and for an amount of 1.0, a buy price of 100, a sell
\* price of 105 and fees and gas configured as zero the net profit is 5
\* and the profit percentage is 5 %.
C35_FivePercentExample ==
  \A a \in Analyses :
    /\ a.netProfit = a.grossProfit - a.flashLoanFee - a.dexFees - a.gasCost
    /\ a.grossProfit = MulDiv(a.opportunity.sellPrice - a.opportunity.buyPrice,
                              a.recommendedAmount, WeiPerEther)
    /\ ( /\ a.recommendedAmount = WeiPerEther
         /\ a.opportunity.buyPrice = 100 * WeiPerEther
         /\ a.opportunity.sellPrice = 105 * WeiPerEther
         /\ config.aaveFee = Given(0)
         /\ \A d \in DOMAIN config.dexFee : config.dexFee[d] = Given(0)
         /\ config.maxGasPrice = 0 )
       => (a.netProfit = 5 * WeiPerEther /\ a.profitPercentage = 500)

\* C36 as stated: the flash-loan fee of an analysis is its amount times the
\* configured fee of the provider over 10000 and its venue fee is its
\* amount times the sum of the configured fees of the buy venue and the
\* sell venue over 10000, for every configured value, zero included.
C36_ConfiguredFees ==
  \A a \in Analyses :
    /\ a.flashLoanFee = MulDiv(a.recommendedAmount, config.aaveFee.value, 10000)
    /\ a.dexFees = MulDiv(a.recommendedAmount,
                          config.dexFee[a.opportunity.buyDex].value
                            + config.dexFee[a.opportunity.sellDex].value, 10000)

Max(a, b) == IF a > b THEN a ELSE b

\* C37: the recommended amount of every analysis is the larger of 0.1
\* ether and the smaller of maxTradeSize and a tenth of the available
\* liquidity.
C37_TradeSizing ==
  \A a \in Analyses :
    a.recommendedAmount =
      Max(WeiPerEther \div 10, Min(config.maxTradeSize, a.opportunity.availableLiquidity \div 10))

\* An analysis whose amount is a tenth of the liquidity, above the floor
\* and below maxTradeSize.
C37_Witness ==
  \E a \in Analyses :
    /\ a.recommendedAmount = a.opportunity.availableLiquidity \div 10
    /\ a.recommendedAmount > WeiPerEther \div 10
    /\ a.recommendedAmount < config.maxTradeSize

\* C38 as stated: the recommended amount of an analysis exceeds neither the
\* configured maxTradeSize nor the available liquidity of its opportunity.
C38_AmountWithinLimits ==
  \A a \in Analyses :
    /\ a.recommendedAmount <= config.maxTradeSize
    /\ a.recommendedAmount <= a.opportunity.availableLiquidity

\* C38 amended: the recommended amount exceeds neither the larger of
\* maxTradeSize and the minimum of 0.1 ether nor the larger of a tenth of
\* the available liquidity and that minimum; it is above maxTradeSize or
\* above the available liquidity only when it is that minimum.
C38_AmountWithinLimitsOrMinimum ==
  \A a \in Analyses :
    LET minAmount == WeiPerEther \div 10
    IN  /\ a.recommendedAmount <= Max(config.maxTradeSize, minAmount)
        /\ a.recommendedAmount <= Max(a.opportunity.availableLiquidity \div 10, minAmount)
        /\ (a.recommendedAmount > config.maxTradeSize
              \/ a.recommendedAmount > a.opportunity.availableLiquidity)
             => a.recommendedAmount = minAmount

\* An analysis of an opportunity with 10 ether of liquidity under a
\* maxTradeSize of 0.05 ether recommends 0.1 ether.
C38_Witness ==
  \E a \in Analyses :
    /\ config.maxTradeSize = WeiPerEther \div 20
    /\ a.opportunity.availableLiquidity = parseEther(100)
    /\ a.recommendedAmount = WeiPerEther \div 10

(***************************************************************************)
(* Properties of the decimals cache (checked under SpecDecimals).          *)
(***************************************************************************)
\* C31 as stated: the decimals cache is append-only; once a value is
\* cached for a token address no step replaces it by a different value,
\* whatever getPrice calls overlap and whichever of their lookups fail.
C31_CacheAppendOnly ==
  [][\A t \in DOMAIN tokenDecimals :
       MapHas(tokenDecimals', t) /\ MapGet(tokenDecimals', t) = MapGet(tokenDecimals, t)]_vars

\* C39: a decimals lookup that fails does not fail the price query:
\* getTokenDecimals returns 18 for that token and getPrice goes on with it;
\* a getPrice that throws does so for its pair address, its reserves or
\* its block number, and one that returns after a failed lookup returns
\* the quote of the reserves with 18 decimals for that token.
C39_DecimalsFallBackTo18 ==
  /\ \A n \in 1..Len(priceCalls) :
       LET c == priceCalls[n]
       IN  /\ (c.tokenA \in c.failed) => c.pc \in {"decimalsB", "lookupB", "blockNumber"} /\ c.decimalsA = 18
           /\ (c.tokenB \in c.failed) => c.pc = "blockNumber" /\ c.decimalsB = 18
  /\ last.op = "priceCall" =>
       IF last.threw
       THEN last.cause \in {"noPair", "rejected", "blockNumber"}
       ELSE /\ \A t \in last.failed : last.decimals[t] = 18
            /\ last.quote = getPrice([pool EXCEPT !.decimals = last.decimals],
                                     last.tokenA, last.tokenB)

\* A getPrice has returned a quote although the lookup of USDC's decimals
\* failed, on a chain where USDC does not have 18 decimals.
C39_Witness ==
  /\ last.op = "priceCall"
  /\ ~last.threw
  /\ USDC \in last.failed
  /\ pool.decimals[USDC] # 18
  /\ last.decimals[USDC] = 18

(***************************************************************************)
(* Properties of the aggregator (checked under SpecAgg).                   *)
(***************************************************************************)

LastOpps == IF last.op = "detect" THEN SeqToSet(last.result.opps) ELSE {}
LastCalls == IF last.op = "detect" THEN SeqToSet(last.result.calls) ELSE {}
\* The venues that quoted a price in the last scan.
LastQuoted == IF last.op = "detect"
              THEN {d \in DOMAIN last.resp : last.resp[d] # GetPriceFails}
              ELSE {}

\* C3: every opportunity a pair scan returns has sellPrice > buyPrice, and two
\* venues that quote equal prices yield no opportunity between them, in either
\* direction.
C3_SellAboveBuy ==
  /\ \A o \in LastOpps : o.sellPrice > o.buyPrice
  /\ \A d1 \in LastQuoted, d2 \in LastQuoted :
        (d1 # d2 /\ last.resp[d1] = last.resp[d2])
           => ~(\E o \in LastOpps : o.buyDex = d1 /\ o.sellDex = d2)

\* A scan that returned an opportunity although two of the venues quoted the
\* same price.
C3_Witness ==
  /\ LastOpps # {}
  /\ \E d1 \in LastQuoted, d2 \in LastQuoted : d1 # d2 /\ last.resp[d1] = last.resp[d2]

C5_DistinctTokensAndVenues ==
  \A o \in LastOpps : o.tokenIn # o.tokenOut /\ o.buyDex # o.sellDex

\* The part of C5 the code does guarantee: the two venues differ.
C5_DistinctVenues == \A o \in LastOpps : o.buyDex # o.sellDex

\* C6: the monitored set never holds two entries for the same two addresses;
\* every entry is the lower-cased, ordered pair; after addPair(A, B) exactly
\* one entry answers to (A, B) and to (B, A) in any letter case, and after
\* removePair(A, B) none does.
C6_PairKeyCanonical ==
  /\ \A i \in 1..Len(getMonitoredPairs), j \in 1..Len(getMonitoredPairs) :
        i # j => ~EntryMatches(getMonitoredPairs[i], getMonitoredPairs[j].tokenA,
                               getMonitoredPairs[j].tokenB)
  /\ \A i \in 1..Len(getMonitoredPairs) :
        LET e == getMonitoredPairs[i]
        IN  /\ e.tokenA = ToLowerCase(e.tokenA)
            /\ e.tokenB = ToLowerCase(e.tokenB)
            /\ ~StrLess(e.tokenB, e.tokenA)
  /\ last.op = "addPair" =>
        /\ Cardinality(MatchingEntries(last.a, last.b)) = 1
        /\ MatchingEntries(last.b, last.a) = MatchingEntries(last.a, last.b)
  /\ last.op = "removePair" => MatchingEntries(last.a, last.b) = {}

\* addPair called with upper-case arguments in descending order for a pair
\* that an earlier call had already entered.
C6_Witness ==
  /\ last.op = "addPair"
  /\ last.had
  /\ last.a # ToLowerCase(last.a)
  /\ StrLess(ToLowerCase(last.b), ToLowerCase(last.a))
  /\ Len(monitoredPairs) = 1

\* The opportunities of the last scan that buy on d1 and sell on d2.
LastDirection(d1, d2) ==
  {k \in 1..Len(last.result.opps) :
     last.result.opps[k].buyDex = d1 /\ last.result.opps[k].sellDex = d2}

\* The direction from a quote of p1 to a quote of p2 qualifies.
Qualifies(p1, p2) == p1 > 0 /\ p2 > p1 /\ DiffPercentageX100(p1, p2) >= 50

\* C18: a scan asks exactly the scanners that are ready; it throws only
\* when a scanner quoted a price of zero, never because a scanner was not
\* ready or failed to quote; the calls and the opportunities of a scan are
\* among the scanners that quoted, every qualifying direction among them
\* being returned by a scan that does not throw; and a scan in which fewer
\* than two scanners quoted returns no opportunity and does not throw.
C18_FailingAdaptersAreSkipped ==
  last.op = "detect" =>
    LET r == last.result
    IN  /\ SeqToSet(r.queried) = ready
        /\ r.threw => \E d \in LastQuoted : last.resp[d] = 0
        /\ \A k \in 1..Len(r.opps) : {r.opps[k].buyDex, r.opps[k].sellDex} \subseteq LastQuoted
        /\ \A k \in 1..Len(r.calls) : {r.calls[k].buyDex, r.calls[k].sellDex} \subseteq LastQuoted
        /\ ~r.threw =>
             \A d1 \in LastQuoted, d2 \in LastQuoted :
               (d1 # d2 /\ Qualifies(last.resp[d1], last.resp[d2])) => LastDirection(d1, d2) # {}
        /\ Cardinality(LastQuoted) < 2 => (r.opps = <<>> /\ r.calls = <<>> /\ ~r.threw)

\* A scan in which one of three ready scanners failed to quote and the
\* opportunity between the other two was returned.
C18_Witness ==
  /\ last.op = "detect"
  /\ Cardinality(ready) = 3
  /\ Cardinality(LastQuoted) = 2
  /\ Len(last.result.opps) = 1
  /\ ~last.result.threw

\* C19 as stated: for every two distinct venues that quoted a price in a
\* scan, the returned opportunities contain the direction that buys on one
\* and sells on the other exactly once when the selling quote is above the
\* buying quote by the threshold or more, and not at all otherwise; so at
\* most one of the two directions is returned.
C19_EveryQualifyingDirection ==
  last.op = "detect" =>
    \A d1 \in LastQuoted, d2 \in LastQuoted :
      d1 # d2 =>
        /\ Cardinality(LastDirection(d1, d2))
             = IF Qualifies(last.resp[d1], last.resp[d2]) THEN 1 ELSE 0
        /\ Cardinality(LastDirection(d1, d2)) + Cardinality(LastDirection(d2, d1)) <= 1

\* C32 as stated: a pair scan does not fail for any combination of quotes;
\* a quote of zero appears in no returned opportunity, and the qualifying
\* directions between the venues that quoted above zero are all returned.
C32_ZeroQuoteIsSkipped ==
  last.op = "detect" =>
    /\ ~last.result.threw
    /\ \A o \in LastOpps : o.buyPrice > 0 /\ o.sellPrice > 0
    /\ \A d1 \in LastQuoted, d2 \in LastQuoted :
         (d1 # d2 /\ last.resp[d1] > 0 /\ Qualifies(last.resp[d1], last.resp[d2]))
           => LastDirection(d1, d2) # {}

(***************************************************************************)
(* Properties of a scan cycle (checked under SpecCycle).                   *)
(***************************************************************************)
\* The opportunities of the last cycle.
CycleOpps == IF last.op = "cycle" THEN last.opps ELSE <<>>

\* The id an opportunity has when its id was built at the time t.
IdAt(o, t) == generateOpportunityId(o.tokenIn, o.tokenOut, o.buyDex, o.sellDex, t)

\* C34 as stated: no two opportunities of one cycle have the same id, and
\* the id is the token pair, the buy venue, the sell venue and the
\* opportunity's own timestamp, joined.
C34_IdOfOwnTimestamp ==
  /\ \A i \in 1..Len(CycleOpps), j \in 1..Len(CycleOpps) :
       i # j => CycleOpps[i].id # CycleOpps[j].id
  /\ \A i \in 1..Len(CycleOpps) : CycleOpps[i].id = IdAt(CycleOpps[i], CycleOpps[i].timestamp)

\* What holds of the ids: no two opportunities of one cycle have the same
\* id, and the id is the token pair, the buy venue, the sell venue and a
\* clock value read during the cycle and no later than the opportunity's
\* own timestamp, joined.
C34_UniqueIdsPerCycle ==
  /\ \A i \in 1..Len(CycleOpps), j \in 1..Len(CycleOpps) :
       i # j => CycleOpps[i].id # CycleOpps[j].id
  /\ \A i \in 1..Len(CycleOpps) :
       \E t \in last.started..CycleOpps[i].timestamp : CycleOpps[i].id = IdAt(CycleOpps[i], t)


\* C40: the monitored-pair set and the scanner registry are changed only by
\* addPair, addPairs and removePair: a step that changes either is a call of
\* one of the three, so a step of detectOpportunities (the loop body),
\* detectOpportunitiesForPair, monitorContinuously, stopMonitoring,
\* subscribeToUpdates, a listener, unsubscribe, getMonitoredPairs or
\* getStats leaves both as they were, whatever the scanners answer.
C40_PairsAndRegistryFrame ==
  [][(monitoredPairs' # monitoredPairs \/ scanners' # scanners)
       => (last' # last /\ last'.op \in {"addPair", "addPairs", "removePair"})]_vars

\* A pair scan has thrown on a zero quote while a loop runs and a listener
\* of a pair removed since is still registered: the pair scanned is still
\* the one monitored pair.
C40_Witness ==
  /\ last.op = "detect"
  /\ last.result.threw
  /\ monitoredPairs = <<getPairKey(last.tokenA, last.tokenB)>>
  /\ \E l \in listeners : l[1] \notin {parsePairKey(monitoredPairs[i]) : i \in 1..Len(monitoredPairs)}
  /\ \E k \in 1..Len(loops) : loops[k] # "returned"

====
